---- MODULE Spec2Model ----
(***************************************************************************)
(* Tenant resolution, schema-scoped sessions over the shared connection    *)
(* pool (database.py, main.py) and the per-schema migration CLI            *)
(* (cli_migrations.py, alembic/env.py), and the credential store           *)
(* shared.users behind signup and the e-mail update (database.py,          *)
(* endpoints/auth.py, endpoints/settings.py).                              *)
(*                                                                         *)
(* A schema name is a sequence of one-character strings.  The reserved     *)
(* names (shared, public, the system catalogs) and Python's None are       *)
(* one-symbol sequences.                                                   *)
(***************************************************************************)
EXTENDS Integers, Sequences, FiniteSets, Bags, TLC

\* ---------------------------------------------------------------- bounds
MaxConns == 1
NSess == 2
NProcs == 2
MaxPayments == 3

\* ----------------------------------------------------------------- names
None == <<"None">>
EmptyStr == <<>>
NL == "\n"

SHARED_SCHEMA == <<"shared">>
PUBLIC == <<"public">>
EXCLUDE_SCHEMAS == {<<"information_schema">>, <<"pg_catalog">>, <<"pg_toast">>, PUBLIC}

\* representatives of the class [A-Za-z0-9_]
WordChars == {"a", "b", "B", "7", "_"}

\* tenant identifiers a request, the environment or the CLI can supply
TenantA == <<"a">>
TenantB == <<"b">>
TenantNL == <<"a", NL>>
TenantHyphen == <<"a", "-">>
TenantNames == {TenantA, TenantB, TenantNL, TenantHyphen}
TenantHints == TenantNames \cup {None, EmptyStr}

\* Python truthiness of an optional string
Truthy(x) == x # None /\ x # EmptyStr

\* some character of the name lies outside [A-Za-z0-9_]
HasBadChar(name) == \E i \in 1..Len(name) : name[i] \notin WordChars

\* the whole name is one or more characters of [A-Za-z0-9_]
MatchesPattern(name) ==
    /\ Len(name) >= 1
    /\ \A i \in 1..Len(name) : name[i] \in WordChars

\* validate_schema_name raises nothing: re.match(r"^[A-Za-z0-9_]+$", name)
\* finds one or more word characters and then the end of the string, where
\* Python's $ also matches just before a final newline
ValidateSchemaName(name) ==
    \E k \in 1..Len(name) :
        /\ \A i \in 1..k : name[i] \in WordChars
        /\ \/ k = Len(name)
           \/ k = Len(name) - 1 /\ name[Len(name)] = NL

\* ---------------------------------------------------------------- state
VARIABLES
    schemas,      \* schemas present in the database catalog
    env,          \* DEFAULT_TENANT_SCHEMA of the process
    idle,         \* the pool's queue of checked-in connections (FIFO)
    nconn,        \* connections the pool has created
    committed,    \* per connection: search_path as of the last commit
    current,      \* per connection: search_path in effect now
    sess,         \* per request: the get_db / get_tenant_db generator
    rq,           \* one request on its way through AuthMiddleware into get_db
    verTable,     \* schemas that hold an alembic_version table
    marker,       \* per schema: index of the revision in alembic_version (0: no row)
    sharedUsers,  \* the table shared.users exists
    embedded,     \* names the CLI has put into the text of a statement it issued
    cli,          \* the running cli_migrations.py command
    users,        \* the rows of shared.users (a bag of records)
    tenantTables, \* schemas that hold the application tables of a tenant
    calls,        \* per caller: the running signup / create_shared_user / update_email
    booted,       \* the lifespan handler has run init_db
    payments,     \* the rows of a tenant's payments table, by id
    preq,         \* per caller: the running payment create / edit request
    pw,           \* a password hashed and verified: the arguments and the result
    publicPaths,  \* settings.PUBLIC_PATHS, the runtime list of public paths
    serving,      \* the lifespan handler has yielded: requests are served
    areq,         \* the last request AuthMiddleware dispatched, with its outcome
    creds,        \* the rows of shared.users as login reads them
    login,        \* the last login through /login or /api/token, with its response
    meta,         \* Base.metadata: the schema attribute of each Table
    created,      \* the tables create_all has created, as <<schema, table>>
    mt,           \* per thread: the running create_tenant_schema_and_tables
    dom,          \* a tenant's levels, locations, prices, members and payments
    dreq          \* the last settings or member operation, with its outcome

vars == <<schemas, env, idle, nconn, committed, current, sess, rq,
          verTable, marker, sharedUsers, embedded, cli,
          users, tenantTables, calls, booted,
          payments, preq, pw, publicPaths, serving, areq, creds, login,
          meta, created, mt, dom, dreq>>
payVars == <<payments, preq>>
authVars == <<publicPaths, serving, areq>>
loginVars == <<creds, login>>
metaVars == <<meta, created, mt>>
domVars == <<dom, dreq>>
tailVars == <<authVars, loginVars, metaVars, domVars>>
appVars == <<payVars, pw, tailVars>>
userVars == <<users, tenantTables, calls, booted>>
cliVars == <<verTable, marker, sharedUsers, embedded, cli>>

Conns == 1..MaxConns
Sess == 1..NSess
Procs == 1..NProcs

\* search_path of a fresh connection ("$user", public; no user schema)
DefaultSearchPath == <<PUBLIC>>
NoObs == <<"unobserved">>

\* SET search_path TO "{tenant}", "{SHARED_SCHEMA}", public
TenantSearchPath(t) == <<t, SHARED_SCHEMA, PUBLIC>>

NewSession == [pc |-> "new", tenant |-> None, conn |-> 0,
               open |-> FALSE, yielded |-> FALSE, obs |-> NoObs,
               outcome |-> "none"]

\* ------------------------------------------------------ connection pool
CanCheckout == idle # <<>> \/ nconn < MaxConns
CheckoutConn == IF idle # <<>> THEN Head(idle) ELSE nconn + 1
IdleAfterCheckout == IF idle # <<>> THEN Tail(idle) ELSE idle
NconnAfterCheckout == IF idle # <<>> THEN nconn ELSE nconn + 1

\* PostgreSQL: a SET issued in a transaction lasts past COMMIT and is undone
\* by ROLLBACK
CurrentAfterRollback(c) == [current EXCEPT ![c] = committed[c]]
CommittedAfterCommit(c) == [committed EXCEPT ![c] = current[c]]

\* a close that leaves the session and its connection as they are
SessionCloseLeak(r) == [r EXCEPT !.obs = NoObs]

\* Session.close(): roll back and release the connection, if one is held
SessionClose(r) == [r EXCEPT !.open = FALSE, !.conn = 0, !.obs = NoObs]

\* the header hint is looked at before the tenant of the token
GetDbTenantHeaderFirst(hasReq, st, hdr, qp, envv) ==
    LET t1 == IF hasReq /\ Truthy(hdr) THEN hdr ELSE None
        t2 == IF ~Truthy(t1) /\ hasReq
              THEN (IF Truthy(st) THEN st ELSE qp)
              ELSE t1
        t3 == IF ~Truthy(t2) THEN envv ELSE t2
    IN  IF Truthy(t3) THEN t3 ELSE None

\* the tenant get_db settles on (database.py 201-215)
GetDbTenant(hasReq, st, hdr, qp, envv) ==
    LET t1 == IF hasReq /\ Truthy(st) THEN st ELSE None
        t2 == IF ~Truthy(t1) /\ hasReq
              THEN (IF Truthy(hdr) THEN hdr ELSE qp)
              ELSE t1
        t3 == IF ~Truthy(t2) THEN envv ELSE t2
    IN  IF Truthy(t3) THEN t3 ELSE None

\* a request before the middleware has seen it
ResolveHints == {None, EmptyStr, TenantA, TenantB}
Tokens == {[present |-> FALSE, valid |-> FALSE, tenant |-> None],
           [present |-> TRUE, valid |-> FALSE, tenant |-> None]}
          \cup {[present |-> TRUE, valid |-> TRUE, tenant |-> t] : t \in ResolveHints}
NewRequest(tok, pub, hdr, qp) ==
    [pc |-> "received", token |-> tok, public |-> pub, hdr |-> hdr, qp |-> qp,
     user |-> FALSE, stateTenant |-> None, resolved |-> None]

\* ------------------------------------------------------- migration state
\* the revisions of alembic/versions, oldest first
Revisions == <<"daf594c78b31">>
NumRevs == Len(Revisions)

\* names that can be schemas of the catalog the CLI works on
MarkerNames == {SHARED_SCHEMA, TenantA, TenantB}

NoCommand == [pc |-> "idle", cmd |-> "none", all |-> FALSE, schema |-> None,
              rev |-> "none", queue |-> <<>>, i |-> 1, attempts |-> <<>>,
              summary |-> <<>>, exit |-> 0]

CliIdle ==
    /\ verTable = {}
    /\ marker = [n \in MarkerNames |-> 0]
    /\ sharedUsers = FALSE
    /\ embedded = {}
    /\ cli = NoCommand

\* ------------------------------------------------------ credential store
Usernames == {"alice", "bob"}
\* email = None of create_shared_user, NULL in the column
NoEmail == "None"
Emails == {"e1", "e2"}

NoCall == [pc |-> "idle", op |-> "none", username |-> "none", tenant |-> None,
           email |-> NoEmail, outcome |-> "none", exc |-> "none", status |-> 0,
           detail |-> <<>>, eligible |-> FALSE, usedSame |-> FALSE,
           usedOther |-> FALSE]

\* the application after init_db, with DEFAULT_TENANT_SCHEMA = e, and nobody
\* in the credential store yet
Booted(e) ==
    /\ users = EmptyBag
    /\ tenantTables = (IF Truthy(e) THEN {e} ELSE {})
    /\ calls = [p \in Procs |-> NoCall]
    /\ booted = TRUE

\* ---------------------------------------------------- a tenant's payments
\* member ids and (period_year, period_month) values of the requests
Members == {"m1", "m2"}
Periods == {<<2024, 1>>, <<2024, 2>>}

NoRequest == [pc |-> "idle", op |-> "none", member |-> "none", id |-> 0,
              period |-> <<>>, outcome |-> "none"]

\* no password hashed or verified yet
NoCheck == [stage |-> "none", password |-> <<>>, stored |-> <<>>,
            candidate |-> <<>>, result |-> "none"]

PaymentsIdle ==
    /\ payments = <<>>
    /\ preq = [p \in Procs |-> NoRequest]

\* a path is the sequence of its characters; "a" and "b" stand for the
\* letters of a name, so that <<"/", "a", "b">> continues the name of
\* <<"/", "a">> and <<"/", "a", "/">> goes below it
Root == <<"/">>

\* utils/auth.py 10-21, by the shapes of its entries: the root, a name
\* without a trailing slash ("/login") and a prefix with one ("/static/")
DEFAULT_PUBLIC_PATHS == <<Root, <<"/", "a">>, <<"/", "b", "/">> >>

\* no token: a missing header or cookie, or an empty bearer value
NoToken == [sig |-> "none", expired |-> FALSE, sub |-> "none",
            tenant |-> None, active |-> FALSE]

NoHeader == [scheme |-> "none", token |-> NoToken]

\* request.state.user = None
NoUser == [set |-> FALSE, username |-> "none", is_active |-> FALSE]

NoAuthRequest == [path |-> Root, hdr |-> NoHeader, cookie |-> NoToken,
                  accept |-> {}, user |-> NoUser, tenant |-> None,
                  response |-> "none"]

AuthIdle ==
    /\ publicPaths = DEFAULT_PUBLIC_PATHS
    /\ serving = FALSE
    /\ areq = NoAuthRequest

NoResponse == [status |-> 0, body |-> "none", token |-> NoToken]

NoLogin == [stage |-> "none", endpoint |-> "none", username |-> "none",
            password |-> <<>>, row |-> 0, response |-> NoResponse]

LoginIdle ==
    /\ creds = <<>>
    /\ login = NoLogin

\* the tables of Base.metadata: none of the models names a schema
MetaTables == <<"members", "payments">>
NumTables == Len(MetaTables)

NoMetaCall == [pc |-> "idle", tenant |-> None, i |-> 1,
               original |-> [k \in 1..NumTables |-> None],
               tenant_tables |-> {}, raised |-> FALSE]

MetaIdle ==
    /\ meta = [k \in 1..NumTables |-> None]
    /\ created = {}
    /\ mt = [p \in Procs |-> NoMetaCall]

NoDomRequest == [op |-> "none", id |-> 0, outcome |-> "none",
                 referenced |-> FALSE]

DomIdle ==
    /\ dom = [levels |-> {}, locations |-> {}, prices |-> {},
              members |-> {}, payments |-> {}]
    /\ dreq = NoDomRequest

TailIdle == AuthIdle /\ LoginIdle /\ MetaIdle /\ DomIdle

\* the parts of the state outside the sessions, the CLI and the credential
\* store, with nothing going on in them
AppIdle ==
    /\ PaymentsIdle
    /\ pw = NoCheck
    /\ TailIdle

Init ==
    /\ env \in {None, TenantA}
    /\ CliIdle
    /\ Booted(env)
    /\ AppIdle
    /\ rq = NewRequest([present |-> FALSE, valid |-> FALSE, tenant |-> None],
                       TRUE, None, None)
    /\ schemas = EXCLUDE_SCHEMAS \cup {SHARED_SCHEMA}
                   \cup (IF Truthy(env) THEN {env} ELSE {})
    /\ idle = <<>>
    /\ nconn = 0
    /\ committed = [c \in Conns |-> DefaultSearchPath]
    /\ current = [c \in Conns |-> DefaultSearchPath]
    /\ sess = [s \in Sess |-> NewSession]

\* get_db up to the validation of the tenant (database.py 199-221)
GetDbEnter(s) ==
    /\ sess[s].pc = "new"
    /\ \E t \in {GetDbTenant(TRUE, st, hdr, qp, env) :
                    st \in TenantHints, hdr \in TenantHints, qp \in TenantHints} :
         LET r == [sess[s] EXCEPT !.tenant = t, !.open = TRUE]
         IN  sess' = [sess EXCEPT ![s] =
                 IF ~Truthy(t)
                 THEN [r EXCEPT !.pc = "yielded", !.yielded = TRUE]
                 ELSE IF ~ValidateSchemaName(t)
                 THEN [SessionClose(r) EXCEPT !.pc = "finished", !.outcome = "http400"]
                 ELSE [r EXCEPT !.pc = "ensure"]]
    /\ UNCHANGED <<schemas, env, idle, nconn, committed, current>>
    /\ UNCHANGED <<rq, verTable, marker, sharedUsers, embedded, cli>>
    /\ UNCHANGED userVars
    /\ UNCHANGED appVars

\* get_tenant_db up to the opening of the session (database.py 239-240)
GetTenantDbEnter(s) ==
    /\ sess[s].pc = "new"
    /\ \E t \in TenantNames \cup {EmptyStr} :
         LET r == [sess[s] EXCEPT !.tenant = t]
         IN  sess' = [sess EXCEPT ![s] =
                 IF ~ValidateSchemaName(t)
                 THEN [r EXCEPT !.pc = "finished", !.outcome = "valueerror"]
                 ELSE [r EXCEPT !.pc = "ensure", !.open = TRUE]]
    /\ UNCHANGED <<schemas, env, idle, nconn, committed, current>>
    /\ UNCHANGED <<rq, verTable, marker, sharedUsers, embedded, cli>>
    /\ UNCHANGED userVars
    /\ UNCHANGED appVars

\* the failure is swallowed and the generator goes on to yield
AfterEnsureFailureSwallowed(r) ==
    [r EXCEPT !.pc = "setpath", !.outcome = "dberror"]

\* the session record once ensure_schema_exists has raised: the exception
\* leaves the generator through finally: db.close()
AfterEnsureFailure(r) ==
    [SessionClose(r) EXCEPT !.pc = "finished", !.outcome = "dberror"]

\* CREATE SCHEMA without IF NOT EXISTS: a schema that is there is an error
CreateSchemaNoGuard(name, catalog, ok) ==
    [catalog |-> IF ok /\ name \notin catalog THEN catalog \cup {name} ELSE catalog,
     raised |-> ~ok \/ name \in catalog]

\* CREATE SCHEMA IF NOT EXISTS "{schema_name}" in engine.begin()
\* (database.py 59-60); ok: the database carries the statement out
CreateSchemaIfNotExists(name, catalog, ok) ==
    [catalog |-> IF ok THEN catalog \cup {name} ELSE catalog,
     raised |-> ~ok]

\* ensure_schema_exists(tenant) inside get_db / get_tenant_db: engine.begin()
\* takes a pooled connection, issues CREATE SCHEMA IF NOT EXISTS and returns
\* the connection; the statement can fail at the database
EnsureSchemaExists(s) ==
    /\ sess[s].pc = "ensure"
    /\ ValidateSchemaName(sess[s].tenant)
    /\ CanCheckout
    /\ idle' = Append(IdleAfterCheckout, CheckoutConn)
    /\ nconn' = NconnAfterCheckout
    /\ \E ok \in BOOLEAN :
         LET r == CreateSchemaIfNotExists(sess[s].tenant, schemas, ok)
         IN  /\ schemas' = r.catalog
             /\ sess' = [sess EXCEPT ![s] =
                   IF r.raised THEN AfterEnsureFailure(sess[s])
                   ELSE [sess[s] EXCEPT !.pc = "setpath"]]
    /\ UNCHANGED <<env, committed, current>>
    /\ UNCHANGED <<rq, verTable, marker, sharedUsers, embedded, cli>>
    /\ UNCHANGED userVars
    /\ UNCHANGED appVars

\* db.execute(SET search_path ...) begins the session's transaction on a
\* pooled connection; then the session is yielded.  A statement that fails
\* leaves the generator through finally: db.close(), which rolls back and
\* releases the connection
SetSearchPath(s) ==
    /\ sess[s].pc = "setpath"
    /\ CanCheckout
    /\ nconn' = NconnAfterCheckout
    /\ \E ok \in BOOLEAN :
         LET c == CheckoutConn
         IN  IF ok
             THEN /\ current' = [current EXCEPT ![c] = TenantSearchPath(sess[s].tenant)]
                  /\ sess' = [sess EXCEPT ![s].conn = c, ![s].pc = "yielded",
                                          ![s].yielded = TRUE]
                  /\ idle' = IdleAfterCheckout
             ELSE /\ current' = current
                  /\ sess' = [sess EXCEPT ![s] =
                        [SessionClose(sess[s]) EXCEPT !.pc = "finished",
                                                      !.outcome = "seterror"]]
                  /\ idle' = Append(IdleAfterCheckout, c)
    /\ UNCHANGED <<schemas, env, committed>>
    /\ UNCHANGED <<rq, verTable, marker, sharedUsers, embedded, cli>>
    /\ UNCHANGED userVars
    /\ UNCHANGED appVars

\* the handler issues a statement with an unqualified table name; a session
\* without a transaction begins one on a connection from the pool
HandlerQuery(s) ==
    /\ sess[s].pc = "yielded"
    /\ IF sess[s].conn # 0
       THEN /\ sess' = [sess EXCEPT ![s].obs = current[sess[s].conn]]
            /\ UNCHANGED <<idle, nconn>>
       ELSE /\ CanCheckout
            /\ sess' = [sess EXCEPT ![s].conn = CheckoutConn,
                                    ![s].obs = current[CheckoutConn]]
            /\ idle' = IdleAfterCheckout
            /\ nconn' = NconnAfterCheckout
    /\ UNCHANGED <<schemas, env, committed, current>>
    /\ UNCHANGED <<rq, verTable, marker, sharedUsers, embedded, cli>>
    /\ UNCHANGED userVars
    /\ UNCHANGED appVars

\* db.commit() in the handler: the transaction ends, the connection goes
\* back to the pool
HandlerCommit(s) ==
    /\ sess[s].pc = "yielded"
    /\ sess[s].conn # 0
    /\ committed' = CommittedAfterCommit(sess[s].conn)
    /\ idle' = Append(idle, sess[s].conn)
    /\ sess' = [sess EXCEPT ![s].conn = 0]
    /\ UNCHANGED <<schemas, env, nconn, current>>
    /\ UNCHANGED <<rq, verTable, marker, sharedUsers, embedded, cli>>
    /\ UNCHANGED userVars
    /\ UNCHANGED appVars

\* db.rollback() in the handler (after an IntegrityError)
HandlerRollback(s) ==
    /\ sess[s].pc = "yielded"
    /\ sess[s].conn # 0
    /\ current' = CurrentAfterRollback(sess[s].conn)
    /\ idle' = Append(idle, sess[s].conn)
    /\ sess' = [sess EXCEPT ![s].conn = 0]
    /\ UNCHANGED <<schemas, env, nconn, committed>>
    /\ UNCHANGED <<rq, verTable, marker, sharedUsers, embedded, cli>>
    /\ UNCHANGED userVars
    /\ UNCHANGED appVars

\* the request ends, by return or by an exception of the handler: the
\* generator runs finally: db.close()
HandlerExit(s) ==
    /\ sess[s].pc = "yielded"
    /\ \E oc \in {"ok", "handler_exc"} :
         sess' = [sess EXCEPT ![s] =
                    [SessionClose(sess[s]) EXCEPT !.pc = "finished", !.outcome = oc]]
    /\ IF sess[s].conn # 0
       THEN /\ current' = CurrentAfterRollback(sess[s].conn)
            /\ idle' = Append(idle, sess[s].conn)
       ELSE UNCHANGED <<current, idle>>
    /\ UNCHANGED <<schemas, env, nconn, committed>>
    /\ UNCHANGED <<rq, verTable, marker, sharedUsers, embedded, cli>>
    /\ UNCHANGED userVars
    /\ UNCHANGED appVars

Next ==
    \E s \in Sess :
        \/ GetDbEnter(s)
        \/ GetTenantDbEnter(s)
        \/ EnsureSchemaExists(s)
        \/ SetSearchPath(s)
        \/ HandlerQuery(s)
        \/ HandlerCommit(s)
        \/ HandlerRollback(s)
        \/ HandlerExit(s)

Spec == Init /\ [][Next]_vars

\* ------------------------------------------- tenant resolution of a request
InitResolve ==
    /\ env \in ResolveHints
    /\ CliIdle
    /\ Booted(env)
    /\ AppIdle
    /\ schemas = EXCLUDE_SCHEMAS \cup {SHARED_SCHEMA}
                   \cup (IF Truthy(env) THEN {env} ELSE {})
    /\ idle = <<>>
    /\ nconn = 0
    /\ committed = [c \in Conns |-> DefaultSearchPath]
    /\ current = [c \in Conns |-> DefaultSearchPath]
    /\ sess = [s \in Sess |-> NewSession]
    /\ \E tok \in Tokens, pub \in BOOLEAN, hdr \in ResolveHints, qp \in ResolveHints :
         rq = NewRequest(tok, pub, hdr, qp)

\* AuthMiddleware.dispatch (main.py 63-109): a token that decodes sets
\* request.state.user and request.state.tenant, any other request is
\* anonymous; a non-public path without user gets the unauthenticated answer
Dispatch ==
    /\ rq.pc = "received"
    /\ LET decoded == rq.token.present /\ rq.token.valid
           st == IF decoded THEN rq.token.tenant ELSE None
       IN  rq' = [rq EXCEPT !.user = decoded, !.stateTenant = st,
                            !.pc = IF ~rq.public /\ ~decoded
                                   THEN "unauthenticated" ELSE "handler"]
    /\ UNCHANGED <<schemas, env, idle, nconn, committed, current, sess>>
    /\ UNCHANGED cliVars
    /\ UNCHANGED userVars
    /\ UNCHANGED appVars

\* get_db picks the tenant of the request (database.py 201-216)
ResolveTenant ==
    /\ rq.pc = "handler"
    /\ rq' = [rq EXCEPT !.pc = "resolved",
                        !.resolved = GetDbTenant(TRUE, rq.stateTenant, rq.hdr,
                                                 rq.qp, env)]
    /\ UNCHANGED <<schemas, env, idle, nconn, committed, current, sess>>
    /\ UNCHANGED cliVars
    /\ UNCHANGED userVars
    /\ UNCHANGED appVars

NextResolve == Dispatch \/ ResolveTenant

SpecResolve == InitResolve /\ [][NextResolve]_vars

\* ------------------------------------------------------------- the CLI
\* the symbols of the modelled names in ascending order of their text
SymbolOrder == <<NL, " ", "\"", "-", "7", "B", "_", "a", "b",
                 "information_schema", "pg_catalog", "pg_toast", "public", "shared">>
Rank(c) == CHOOSE k \in 1..Len(SymbolOrder) : SymbolOrder[k] = c

RECURSIVE NameLess(_, _)
NameLess(x, y) ==
    IF x = <<>> THEN y # <<>>
    ELSE IF y = <<>> THEN FALSE
    ELSE IF Head(x) = Head(y) THEN NameLess(Tail(x), Tail(y))
    ELSE Rank(Head(x)) < Rank(Head(y))

RECURSIVE SortedNames(_)
SortedNames(S) ==
    IF S = {} THEN <<>>
    ELSE LET m == CHOOSE x \in S : \A y \in S : x = y \/ NameLess(x, y)
         IN  <<m>> \o SortedNames(S \ {m})

\* the query has no WHERE schema_name NOT IN :excluded
GetAllTenantSchemasNoExclusion == SortedNames(schemas)

\* get_all_tenant_schemas (cli_migrations.py 42-54)
GetAllTenantSchemas == SortedNames(schemas \ EXCLUDE_SCHEMAS)

\* index of a revision identifier in the script directory, -1 if unknown
RevIndex(rev) ==
    IF \E k \in 1..NumRevs : Revisions[k] = rev
    THEN CHOOSE k \in 1..NumRevs : Revisions[k] = rev
    ELSE -1

\* the revision a command is to reach from marker value before; -1 when
\* alembic cannot resolve it
Target(cmd, rev, before) ==
    IF rev = "head" THEN NumRevs
    ELSE IF rev = "base" THEN 0
    ELSE IF rev = "-1" THEN before - 1
    ELSE RevIndex(rev)

\* the migration leaves its changes behind although it failed
RunMigrationsOnlineNoRollback(before, target, ok) ==
    IF target >= 0 THEN target ELSE before

\* run_migrations_online (alembic/env.py 74-95): all steps and the update of
\* the version table run in one transaction of connectable.begin()
RunMigrationsOnline(before, target, ok) ==
    IF ok THEN target ELSE before

\* the loop stops at the first schema that fails
NextIndexStopOnFailure(i, n, success) ==
    IF success THEN i + 1 ELSE n + 1

\* for schema in schemas: the loop goes on whatever the result
NextIndex(i, n, success) == i + 1

\* summary[schema] = "Success" if success else f"Failed: {error}"
SummaryEntry(success) == IF success THEN "Success" ELSE "Failed"

\* the command never signals a failure
ExitCodeAlwaysZero(summary) == 0

\* failed = [s for s, r in summary.items() if r != "Success"]; sys.exit(1)
ExitCode(summary) ==
    IF \E k \in 1..Len(summary) : summary[k] # "Success" THEN 1 ELSE 0

SchemaArgs == {EmptyStr, TenantA, TenantB, TenantHyphen}
RevArgs(cmd) ==
    IF cmd = "upgrade" THEN {"head", "daf594c78b31", "bogus"}
    ELSE IF cmd = "downgrade" THEN {"-1", "base", "bogus"}
    ELSE IF cmd = "stamp" THEN {"head", "base", "bogus"}
    ELSE {"none"}

InitCli ==
    /\ env = None
    /\ schemas \in {EXCLUDE_SCHEMAS,
                    EXCLUDE_SCHEMAS \cup {TenantA},
                    EXCLUDE_SCHEMAS \cup {SHARED_SCHEMA, TenantA},
                    EXCLUDE_SCHEMAS \cup {SHARED_SCHEMA, TenantA, TenantB}}
    /\ idle = <<>>
    /\ nconn = 0
    /\ committed = [c \in Conns |-> DefaultSearchPath]
    /\ current = [c \in Conns |-> DefaultSearchPath]
    /\ sess = [s \in Sess |-> NewSession]
    /\ rq = NewRequest([present |-> FALSE, valid |-> FALSE, tenant |-> None],
                       TRUE, None, None)
    /\ CliIdle
    /\ Booted(env)
    /\ AppIdle

\* main() and the head of cmd_upgrade / cmd_downgrade / cmd_stamp /
\* cmd_current: pick the schemas to work on
CliInvoke ==
    /\ cli.pc \in {"idle", "done"}
    /\ \E cmd \in {"upgrade", "downgrade", "stamp", "current"},
          all \in BOOLEAN, schema \in SchemaArgs \cup {None} :
         /\ cmd # "downgrade" => (all <=> schema = None)
         /\ \E rev \in RevArgs(cmd) :
              LET c == [NoCommand EXCEPT !.cmd = cmd, !.all = all,
                                         !.schema = schema, !.rev = rev]
              IN  cli' =
                    IF all
                    THEN IF GetAllTenantSchemas = <<>>
                         THEN [c EXCEPT !.pc = "done"]
                         ELSE [c EXCEPT !.pc = "loop", !.queue = GetAllTenantSchemas]
                    ELSE IF Truthy(schema)
                    THEN [c EXCEPT !.pc = "loop", !.queue = <<schema>>]
                    ELSE [c EXCEPT !.pc = "done", !.exit = 1]
    /\ UNCHANGED <<schemas, verTable, marker, sharedUsers, embedded>>
    /\ UNCHANGED <<env, idle, nconn, committed, current, sess, rq>>
    /\ UNCHANGED userVars
    /\ UNCHANGED appVars

\* every schema keeps its marker in the one table shared.alembic_version
VersionTableSchemaShared(S) == SHARED_SCHEMA

\* cfg.set_main_option("version_table_schema", schema_name): the schema whose
\* alembic_version table the command reads and writes
VersionTableSchema(S) == S

\* CREATE TABLE is issued without looking for the table first
EnsureAlembicVersionTableNoCheck(S, tabs, ok) ==
    LET raised == S \in tabs \/ S \notin schemas \/ ~ok
    IN  [tables |-> IF raised THEN tabs ELSE tabs \cup {S},
         raised |-> raised,
         create |-> TRUE]

\* ensure_alembic_version_table (cli_migrations.py 57-83): SELECT EXISTS on
\* information_schema.tables, CREATE TABLE only when the table is absent; the
\* CREATE fails when the schema is not in the catalog or the database refuses
EnsureAlembicVersionTable(S, tabs, ok) ==
    LET exists == S \in tabs
        raised == ~exists /\ (S \notin schemas \/ ~ok)
    IN  [tables |-> IF ~exists /\ ~raised THEN tabs \cup {S} ELSE tabs,
         raised |-> raised,
         create |-> ~exists]

\* a stamp runs upgrade() and downgrade() like the other commands
UsersAfterStampRuns(cmd, before, after, present) ==
    IF before < after THEN TRUE
    ELSE IF after < before THEN FALSE
    ELSE present

\* upgrade() / downgrade() of revision daf594c78b31: whether shared.users
\* exists once a successful command moved the marker from before to after;
\* command.stamp runs no step
UsersAfter(cmd, before, after, present) ==
    IF cmd = "upgrade" /\ before < after THEN TRUE
    ELSE IF cmd = "downgrade" /\ after < before THEN FALSE
    ELSE present

\* upgrade() of revision daf594c78b31 creates the schema shared when it is
\* not in the catalog
SchemasAfter(cmd, before, after, catalog) ==
    IF cmd = "upgrade" /\ before < after THEN catalog \cup {SHARED_SCHEMA}
    ELSE catalog

\* upgrade_schema / downgrade_schema / stamp_schema / show_current for the
\* next schema: ensure_alembic_version_table, get_current_revision, the
\* alembic command, and the entry of the summary
CliStep ==
    /\ cli.pc = "loop"
    /\ cli.i <= Len(cli.queue)
    /\ \E ensureOk \in BOOLEAN, runOk \in BOOLEAN :
         LET S == cli.queue[cli.i]
             V == VersionTableSchema(S)
             before == IF V \in MarkerNames THEN marker[V] ELSE 0
             ens == EnsureAlembicVersionTable(S, verTable, ensureOk)
             ensureRaised == ens.raised
             target == Target(cli.cmd, cli.rev, before)
             runRaised == cli.cmd # "current" /\ (target < 0 \/ ~runOk)
             success == ~ensureRaised /\ ~runRaised
             after == IF ensureRaised \/ cli.cmd = "current" THEN before
                      ELSE RunMigrationsOnline(before, target, ~runRaised)
             present == IF success THEN UsersAfter(cli.cmd, before, after, sharedUsers)
                      ELSE sharedUsers
             catalog == IF success THEN SchemasAfter(cli.cmd, before, after, schemas)
                        ELSE schemas
         IN  /\ verTable' = ens.tables
             /\ embedded' = embedded \cup (IF ens.create THEN {S} ELSE {})
                                     \cup (IF ~ensureRaised THEN {S} ELSE {})
             /\ marker' = IF V \in MarkerNames THEN [marker EXCEPT ![V] = after]
                          ELSE marker
             /\ schemas' = catalog
             /\ sharedUsers' = present
             /\ cli' = [cli EXCEPT
                          !.attempts = Append(@, [schema |-> S, ok |-> success,
                                                  before |-> before, after |-> after,
                                                  hadTable |-> S \in verTable,
                                                  ensureRaised |-> ensureRaised,
                                                  ddl |-> (catalog \ schemas) \cup
                                                          (IF present # sharedUsers
                                                           THEN {SHARED_SCHEMA} ELSE {})]),
                          !.summary = IF cli.cmd = "current" THEN @
                                      ELSE Append(@, SummaryEntry(success)),
                          !.i = NextIndex(cli.i, Len(cli.queue), success)]
    /\ UNCHANGED <<env, idle, nconn, committed, current, sess, rq>>
    /\ UNCHANGED userVars
    /\ UNCHANGED appVars

\* after the loop: the summary and the exit code; for --schema the exit code
\* follows the one result
CliFinish ==
    /\ cli.pc = "loop"
    /\ cli.i > Len(cli.queue)
    /\ cli' = [cli EXCEPT !.pc = "done",
                          !.exit = IF cli.cmd = "current" THEN 0
                                   ELSE IF cli.all THEN ExitCode(cli.summary)
                                   ELSE IF cli.attempts[1].ok THEN 0 ELSE 1]
    /\ UNCHANGED <<schemas, verTable, marker, sharedUsers, embedded>>
    /\ UNCHANGED <<env, idle, nconn, committed, current, sess, rq>>
    /\ UNCHANGED userVars
    /\ UNCHANGED appVars

NextCli == CliInvoke \/ CliStep \/ CliFinish

SpecCli == InitCli /\ [][NextCli]_vars

\* ------------------------------------------- signup and the e-mail update
Row(t, u, e) == [tenant |-> t, username |-> u, email |-> e]

\* db.query(User).filter(User.username == username,
\*                       User.tenant_schema == tenant_schema).first()
ExistingUser(u, t) ==
    \E r \in BagToSet(users) : r.username = u /\ r.tenant = t

\* db.query(User).filter(User.email == email).first(): no tenant in the filter
EmailExists(e) ==
    \E r \in BagToSet(users) : r.email = e

\* the table carries no unique constraint
ViolatedConstraintNone(row, table) == "none"

\* uq_shared_users_tenant_username and uq_shared_users_tenant_email, checked
\* by the database when the INSERT or UPDATE of row is flushed at commit; a
\* NULL email never collides.  The name of the violated constraint, or "none"
ViolatedConstraint(row, table) ==
    IF \E r \in BagToSet(table) : r.tenant = row.tenant /\ r.username = row.username
    THEN "uq_shared_users_tenant_username"
    ELSE IF row.email # NoEmail /\
            \E r \in BagToSet(table) : r.tenant = row.tenant /\ r.email = row.email
    THEN "uq_shared_users_tenant_email"
    ELSE "none"

\* str(e) of what create_shared_user raises
InvalidNameText ==
    <<"Invalid schema name. Only letters, numbers and underscore are allowed.">>
UserExistsText == <<"User already exists for that tenant">>
EmailInUseText == <<"Email already in use">>
\* str() of sqlalchemy.exc.IntegrityError over psycopg2
IntegrityErrorText(constraint) ==
    <<"(psycopg2.errors.UniqueViolation)",
      "duplicate key value violates unique constraint", constraint,
      "[SQL: INSERT INTO users (username, email, password_hash, tenant_schema, is_active, created_at) VALUES (...)]",
      "(Background on this error at: https://sqlalche.me/e/20/gkpj)">>
\* str() of sqlalchemy.exc.ProgrammingError: users resolves to no table
UndefinedTableText ==
    <<"(psycopg2.errors.UndefinedTable)", "relation \"users\" does not exist",
      "[SQL: SELECT users.id ... FROM users WHERE ...]">>

\* signup: return JSONResponse(...) / except Exception as e:
\* raise HTTPException(status_code=400, detail=str(e)); a direct caller of
\* create_shared_user gets the exception itself
Finished(c, op, outcome, exc, text) ==
    [c EXCEPT !.pc = "done", !.outcome = outcome, !.exc = exc,
              !.status = IF op = "signup" THEN (IF exc = "none" THEN 200 ELSE 400)
                         ELSE 0,
              !.detail = IF exc = "none" THEN <<>> ELSE text]

\* an e-mail in use by another record of tenant t / by a record of another tenant
UsedInTenant(e, t, u) ==
    /\ e # NoEmail
    /\ \E r \in BagToSet(users) : r.email = e /\ r.tenant = t /\ r.username # u
UsedElsewhere(e, t) ==
    /\ e # NoEmail
    /\ \E r \in BagToSet(users) : r.email = e /\ r.tenant # t

\* init_db (database.py 254-267) from the lifespan handler: the shared
\* schema, then create_tenant_schema_and_tables(DEFAULT_TENANT_SCHEMA) when
\* it is set; no table of the metadata has schema "shared", so
\* ensure_shared_schema_and_tables creates the schema only
InitDb ==
    /\ ~booted
    /\ LET withShared == CreateSchemaIfNotExists(SHARED_SCHEMA, schemas, TRUE).catalog
       IN  IF Truthy(env) /\ ValidateSchemaName(env)
           THEN /\ schemas' = CreateSchemaIfNotExists(env, withShared, TRUE).catalog
                /\ tenantTables' = tenantTables \cup {env}
                /\ booted' = TRUE
           ELSE /\ schemas' = withShared
                /\ tenantTables' = tenantTables
                /\ booted' = ~Truthy(env)
    /\ UNCHANGED <<users, calls>>
    /\ UNCHANGED <<env, idle, nconn, committed, current, sess, rq>>
    /\ UNCHANGED cliVars
    /\ UNCHANGED appVars

\* create_shared_user up to SessionLocal() (database.py 141-143), as the
\* record of the call: validate_schema_name(tenant_schema) raises or the
\* queries come next
EnteredCall(op, u, t, e) ==
    LET c == [NoCall EXCEPT !.op = op, !.username = u, !.tenant = t, !.email = e,
                            !.eligible = e # NoEmail /\ ~ExistingUser(u, t),
                            !.usedSame = UsedInTenant(e, t, u),
                            !.usedOther = UsedElsewhere(e, t)]
    IN  IF ~ValidateSchemaName(t)
        THEN Finished(c, op, "invalid", "ValueError", InvalidNameText)
        ELSE [c EXCEPT !.pc = "check"]

\* ensure_shared_schema_and_tables() (database.py 96-106) once the name is
\* valid: the schema shared, and no table, as no table of the metadata has
\* schema "shared"
CatalogAfterEnter(t) ==
    IF ValidateSchemaName(t)
    THEN CreateSchemaIfNotExists(SHARED_SCHEMA, schemas, TRUE).catalog
    ELSE schemas

\* signup (endpoints/auth.py 221-239): create_shared_user(username, password,
\* tenant_schema, is_active=True), no email
SignupEnter(p) ==
    /\ booted
    /\ calls[p].pc = "idle"
    /\ \E u \in Usernames, t \in {TenantA, TenantB, TenantHyphen} :
         /\ calls' = [calls EXCEPT ![p] = EnteredCall("signup", u, t, NoEmail)]
         /\ schemas' = CatalogAfterEnter(t)
    /\ UNCHANGED <<users, tenantTables, booted>>
    /\ UNCHANGED <<env, idle, nconn, committed, current, sess, rq>>
    /\ UNCHANGED cliVars
    /\ UNCHANGED appVars

\* create_shared_user called with an email
CreateWithEmailEnter(p) ==
    /\ booted
    /\ calls[p].pc = "idle"
    /\ \E u \in Usernames, t \in {TenantA, TenantB}, e \in Emails :
         /\ calls' = [calls EXCEPT ![p] = EnteredCall("create", u, t, e)]
         /\ schemas' = CatalogAfterEnter(t)
    /\ UNCHANGED <<users, tenantTables, booted>>
    /\ UNCHANGED <<env, idle, nconn, committed, current, sess, rq>>
    /\ UNCHANGED cliVars
    /\ UNCHANGED appVars

\* create_shared_user, the queries before the insert (database.py 146-160)
CreateSharedUserCheck(p) ==
    /\ calls[p].pc = "check"
    /\ LET c == calls[p]
       IN  calls' = [calls EXCEPT ![p] =
             IF ~sharedUsers
             THEN Finished(c, c.op, "dberror", "ProgrammingError", UndefinedTableText)
             ELSE IF ExistingUser(c.username, c.tenant)
             THEN Finished(c, c.op, "username_conflict", "ValueError", UserExistsText)
             ELSE IF c.email # NoEmail /\ EmailExists(c.email)
             THEN Finished(c, c.op, "email_conflict", "ValueError", EmailInUseText)
             ELSE [c EXCEPT !.pc = "commit"]]
    /\ UNCHANGED <<users, tenantTables, booted>>
    /\ UNCHANGED <<schemas, env, idle, nconn, committed, current, sess, rq>>
    /\ UNCHANGED cliVars
    /\ UNCHANGED appVars

\* db.add(user); db.commit() (database.py 162-171): the INSERT is flushed at
\* commit, where the database checks the unique constraints
CreateSharedUserCommit(p) ==
    /\ calls[p].pc = "commit"
    /\ LET c == calls[p]
           row == Row(c.tenant, c.username, c.email)
           v == ViolatedConstraint(row, users)
       IN  IF v = "none"
           THEN /\ users' = users (+) SetToBag({row})
                /\ calls' = [calls EXCEPT ![p] = Finished(c, c.op, "ok", "none", <<>>)]
           ELSE /\ users' = users
                /\ calls' = [calls EXCEPT ![p] =
                     Finished(c, c.op,
                              IF v = "uq_shared_users_tenant_username"
                              THEN "username_conflict" ELSE "email_conflict",
                              "IntegrityError", IntegrityErrorText(v))]
    /\ UNCHANGED <<tenantTables, booted>>
    /\ UNCHANGED <<schemas, env, idle, nconn, committed, current, sess, rq>>
    /\ UNCHANGED cliVars
    /\ UNCHANGED appVars

\* update_email up to the commit (endpoints/settings.py 52-94): the record of
\* the signed-in user, the password, then the e-mail looked up in all tenants
UpdateEmailCheck(p) ==
    /\ booted /\ sharedUsers
    /\ calls[p].pc = "idle"
    /\ \E u \in Usernames, t \in {TenantA, TenantB}, e \in Emails, pwOk \in BOOLEAN :
         LET found == ExistingUser(u, t)
             dbUser == IF found
                       THEN CHOOSE r \in BagToSet(users) : r.username = u /\ r.tenant = t
                       ELSE Row(t, u, NoEmail)
             c == [NoCall EXCEPT !.op = "update_email", !.username = u, !.tenant = t,
                                 !.email = e, !.eligible = found /\ pwOk,
                                 !.usedSame = UsedInTenant(e, t, u),
                                 !.usedOther = UsedElsewhere(e, t)]
         IN  calls' = [calls EXCEPT ![p] =
               IF ~found
               THEN Finished(c, c.op, "user_not_found", "none", <<>>)
               ELSE IF ~pwOk
               THEN Finished(c, c.op, "password_incorrect", "none", <<>>)
               ELSE IF e # dbUser.email /\ EmailExists(e)
               THEN Finished(c, c.op, "email_conflict", "none", <<>>)
               ELSE [c EXCEPT !.pc = "update"]]
    /\ schemas' = CreateSchemaIfNotExists(SHARED_SCHEMA, schemas, TRUE).catalog
    /\ UNCHANGED <<users, tenantTables, booted>>
    /\ UNCHANGED <<env, idle, nconn, committed, current, sess, rq>>
    /\ UNCHANGED cliVars
    /\ UNCHANGED appVars

\* db_user.email = email; shared_db.commit(), IntegrityError answered with
\* settings.email_in_use (endpoints/settings.py 96-106)
UpdateEmailCommit(p) ==
    /\ calls[p].pc = "update"
    /\ LET c == calls[p]
           old == CHOOSE r \in BagToSet(users) :
                      r.username = c.username /\ r.tenant = c.tenant
           others == users (-) SetToBag({old})
           new == [old EXCEPT !.email = c.email]
           v == ViolatedConstraint(new, others)
       IN  IF v = "none"
           THEN /\ users' = others (+) SetToBag({new})
                /\ calls' = [calls EXCEPT ![p] = Finished(c, c.op, "ok", "none", <<>>)]
           ELSE /\ users' = users
                /\ calls' = [calls EXCEPT ![p] =
                     Finished(c, c.op, "email_conflict", "none", <<>>)]
    /\ UNCHANGED <<tenantTables, booted>>
    /\ UNCHANGED <<schemas, env, idle, nconn, committed, current, sess, rq>>
    /\ UNCHANGED cliVars
    /\ UNCHANGED appVars

\* the response is out; the caller is free for its next request
Return(p) ==
    /\ calls[p].pc = "done"
    /\ calls' = [calls EXCEPT ![p] = NoCall]
    /\ UNCHANGED <<users, tenantTables, booted>>
    /\ UNCHANGED <<schemas, env, idle, nconn, committed, current, sess, rq>>
    /\ UNCHANGED cliVars
    /\ UNCHANGED appVars

\* a database on which the migration of shared ran or did not run, and an
\* application that has not started yet
InitSignup ==
    /\ env \in {None, TenantB}
    /\ sharedUsers \in BOOLEAN
    /\ schemas = EXCLUDE_SCHEMAS \cup (IF sharedUsers THEN {SHARED_SCHEMA} ELSE {})
    /\ verTable = (IF sharedUsers THEN {SHARED_SCHEMA} ELSE {})
    /\ marker = [n \in MarkerNames |->
                   IF n = SHARED_SCHEMA /\ sharedUsers THEN NumRevs ELSE 0]
    /\ embedded = {}
    /\ cli = NoCommand
    /\ users = EmptyBag
    /\ tenantTables = {}
    /\ calls = [p \in Procs |-> NoCall]
    /\ booted = FALSE
    /\ AppIdle
    /\ rq = NewRequest([present |-> FALSE, valid |-> FALSE, tenant |-> None],
                       TRUE, None, None)
    /\ idle = <<>>
    /\ nconn = 0
    /\ committed = [c \in Conns |-> DefaultSearchPath]
    /\ current = [c \in Conns |-> DefaultSearchPath]
    /\ sess = [s \in Sess |-> NewSession]

\* concurrent requests to POST /signup
NextSignup ==
    \/ InitDb
    \/ \E p \in Procs :
         \/ SignupEnter(p)
         \/ CreateSharedUserCheck(p)
         \/ CreateSharedUserCommit(p)
         \/ Return(p)

SpecSignup == InitSignup /\ [][NextSignup]_vars

\* the migrated database of a started application
InitEmail ==
    /\ env = None
    /\ sharedUsers = TRUE
    /\ schemas = EXCLUDE_SCHEMAS \cup {SHARED_SCHEMA, TenantA, TenantB}
    /\ verTable = {SHARED_SCHEMA}
    /\ marker = [n \in MarkerNames |-> IF n = SHARED_SCHEMA THEN NumRevs ELSE 0]
    /\ embedded = {}
    /\ cli = NoCommand
    /\ users = EmptyBag
    /\ tenantTables = {}
    /\ calls = [p \in Procs |-> NoCall]
    /\ booted = TRUE
    /\ AppIdle
    /\ rq = NewRequest([present |-> FALSE, valid |-> FALSE, tenant |-> None],
                       TRUE, None, None)
    /\ idle = <<>>
    /\ nconn = 0
    /\ committed = [c \in Conns |-> DefaultSearchPath]
    /\ current = [c \in Conns |-> DefaultSearchPath]
    /\ sess = [s \in Sess |-> NewSession]

\* one caller at a time creating credentials with an e-mail and changing
\* e-mails
NextEmail ==
    \/ CreateWithEmailEnter(1)
    \/ CreateSharedUserCheck(1)
    \/ CreateSharedUserCommit(1)
    \/ UpdateEmailCheck(1)
    \/ UpdateEmailCommit(1)
    \/ Return(1)

SpecEmail == InitEmail /\ [][NextEmail]_vars


\* -------------------------------------------- payment create and edit
coreVars == <<schemas, env, idle, nconn, committed, current, sess, rq,
              cliVars, userVars>>

\* a started application on a migrated database, with no request in flight
Started ==
    /\ env = None
    /\ schemas = EXCLUDE_SCHEMAS \cup {SHARED_SCHEMA, TenantA}
    /\ idle = <<>>
    /\ nconn = 0
    /\ committed = [c \in Conns |-> DefaultSearchPath]
    /\ current = [c \in Conns |-> DefaultSearchPath]
    /\ sess = [s \in Sess |-> NewSession]
    /\ rq = NewRequest([present |-> FALSE, valid |-> FALSE, tenant |-> None],
                       TRUE, None, None)
    /\ CliIdle
    /\ Booted(env)

PaymentRow(m, per) == [member |-> m, period |-> per]

\* db.query(Payment).filter(member_id, period_year, period_month).first()
ExistingPayment(m, per) ==
    \E i \in 1..Len(payments) : payments[i] = PaymentRow(m, per)

\* the same query with Payment.id != payment_id
ConflictingPayment(m, per, id) ==
    \E i \in 1..Len(payments) : i # id /\ payments[i] = PaymentRow(m, per)

\* what the database does with a row that repeats (member_id, period_year,
\* period_month): Payment.__table_args__ holds three Index(...) and no
\* unique constraint, so the row is accepted
PaymentAccepted(row, table) == TRUE

Answered(r, outcome) == [NoRequest EXCEPT !.pc = "done", !.op = r.op, !.outcome = outcome]

\* inserts in flight: the table of the model has room for MaxPayments rows
Inserting == Cardinality({q \in Procs : preq[q].pc = "insert"})

\* member_payments_create up to db.add (members.py 519-546): the member, the
\* price, then the payment of the same member and period
PaymentCreateCheck(p) ==
    /\ preq[p].pc = "idle"
    /\ Len(payments) + Inserting < MaxPayments
    /\ \E m \in Members, per \in Periods, priceOk \in BOOLEAN :
         LET r == [NoRequest EXCEPT !.op = "create", !.member = m, !.period = per]
         IN  preq' = [preq EXCEPT ![p] =
               IF ~priceOk THEN Answered(r, "price_missing")
               ELSE IF ExistingPayment(m, per) THEN Answered(r, "duplicate")
               ELSE [r EXCEPT !.pc = "insert"]]
    /\ UNCHANGED payments
    /\ UNCHANGED <<pw, tailVars>>
    /\ UNCHANGED coreVars

\* db.add(p); db.commit() (members.py 548-560)
PaymentCreateCommit(p) ==
    /\ preq[p].pc = "insert"
    /\ LET row == PaymentRow(preq[p].member, preq[p].period)
       IN  IF PaymentAccepted(row, payments)
           THEN /\ payments' = Append(payments, row)
                /\ preq' = [preq EXCEPT ![p] = Answered(preq[p], "created")]
           ELSE /\ payments' = payments
                /\ preq' = [preq EXCEPT ![p] = Answered(preq[p], "error")]
    /\ UNCHANGED <<pw, tailVars>>
    /\ UNCHANGED coreVars

\* member_payment_edit_post up to the assignment (members.py 609-637): the
\* payment of the member, another payment of the same period, the price
PaymentEditCheck(p) ==
    /\ preq[p].pc = "idle"
    /\ \E m \in Members, id \in 1..MaxPayments, per \in Periods, priceOk \in BOOLEAN :
         LET r == [NoRequest EXCEPT !.op = "edit", !.member = m, !.id = id,
                                    !.period = per]
         IN  preq' = [preq EXCEPT ![p] =
               IF id > Len(payments) \/ payments[id].member # m
               THEN Answered(r, "not_found")
               ELSE IF ConflictingPayment(m, per, id) THEN Answered(r, "duplicate")
               ELSE IF ~priceOk THEN Answered(r, "price_missing")
               ELSE [r EXCEPT !.pc = "update"]]
    /\ UNCHANGED payments
    /\ UNCHANGED <<pw, tailVars>>
    /\ UNCHANGED coreVars

\* payment.period_month = ...; db.add(payment); db.commit() (members.py 639-651)
PaymentEditCommit(p) ==
    /\ preq[p].pc = "update"
    /\ LET row == PaymentRow(preq[p].member, preq[p].period)
           others == [i \in 1..Len(payments) |->
                         IF i = preq[p].id THEN <<>> ELSE payments[i]]
       IN  IF PaymentAccepted(row, others)
           THEN /\ payments' = [payments EXCEPT ![preq[p].id] = row]
                /\ preq' = [preq EXCEPT ![p] = Answered(preq[p], "updated")]
           ELSE /\ payments' = payments
                /\ preq' = [preq EXCEPT ![p] = Answered(preq[p], "error")]
    /\ UNCHANGED <<pw, tailVars>>
    /\ UNCHANGED coreVars

\* the redirect is out
PaymentReturn(p) ==
    /\ preq[p].pc = "done"
    /\ preq' = [preq EXCEPT ![p] = NoRequest]
    /\ UNCHANGED payments
    /\ UNCHANGED <<pw, tailVars>>
    /\ UNCHANGED coreVars

InitPayments ==
    /\ Started
    /\ AppIdle

\* concurrent requests of worker processes on one tenant's payments
NextPayments ==
    \E p \in Procs :
        \/ PaymentCreateCheck(p)
        \/ PaymentCreateCommit(p)
        \/ PaymentEditCheck(p)
        \/ PaymentEditCommit(p)
        \/ PaymentReturn(p)

SpecPayments == InitPayments /\ [][NextPayments]_vars


\* ------------------------------------------------------ password hashing
\* passwords are sequences of characters; NUL is U+0000
NUL == "\\0"
MaxPwLen == 2
PwChars == {"a", NUL}
Passwords == UNION {[1..n -> PwChars] : n \in 0..MaxPwLen}
\* os.urandom(16)
Salts == {<<"s1">>, <<"s2">>}

RECURSIVE StripTrailingNul(_)
StripTrailingNul(bytes) ==
    IF bytes # <<>> /\ bytes[Len(bytes)] = NUL
    THEN StripTrailingNul(SubSeq(bytes, 1, Len(bytes) - 1))
    ELSE bytes

\* hashlib.pbkdf2_hmac("sha256", password, salt, iterations): HMAC pads a key
\* shorter than its block with zero bytes, so the key is the password up to
\* trailing zero bytes; beyond that the function is taken to be free of
\* collisions.  Fewer than one iteration is a ValueError
Pbkdf2Hmac(password, salt, iterations) ==
    [raised |-> iterations < 1,
     dk |-> <<StripTrailingNul(password), salt, iterations>>]

\* a base64 text: the bytes its alphabet characters stand for, whether other
\* characters sit among them, and whether its length and padding are right
B64Encode(bytes) == [bytes |-> bytes, junk |-> FALSE, padded |-> TRUE]

\* base64.b64decode(text) with validate left False: characters outside the
\* alphabet are discarded, incorrect padding is a binascii.Error
B64Decode(text) == [raised |-> ~text.padded, bytes |-> text.bytes]

\* int(iterations_s)
ParseInt(text) ==
    IF text = "100000" THEN [raised |-> FALSE, n |-> 100000]
    ELSE IF text = "1" THEN [raised |-> FALSE, n |-> 1]
    ELSE IF text = "0" THEN [raised |-> FALSE, n |-> 0]
    ELSE [raised |-> TRUE, n |-> 0]

\* _hash_password (database.py 109-117) with the salt os.urandom returned;
\* the result as its four '$'-separated fields
HashPassword(password, salt) ==
    <<"pbkdf2_sha256", "100000", B64Encode(salt),
      B64Encode(Pbkdf2Hmac(password, salt, 100000).dk)>>

\* the steps of _verify_password inside its try: stored.split("$", 3)
\* unpacked into four names, int(), two b64decode, pbkdf2_hmac,
\* hmac.compare_digest
VerifySteps(password, stored) ==
    IF Len(stored) < 4 THEN "raise"
    ELSE LET iterations == ParseInt(stored[2])
             salt == B64Decode(stored[3])
             expected == B64Decode(stored[4])
             derived == Pbkdf2Hmac(password, salt.bytes, iterations.n)
         IN  IF iterations.raised \/ salt.raised \/ expected.raised \/ derived.raised
             THEN "raise"
             ELSE IF derived.dk = expected.bytes THEN "True" ELSE "False"

\* _verify_password without its try / except
VerifyPasswordUnguarded(password, stored) == VerifySteps(password, stored)

\* _verify_password (database.py 120-130): except Exception: return False
VerifyPassword(password, stored) ==
    IF VerifySteps(password, stored) = "raise" THEN "False"
    ELSE VerifySteps(password, stored)

\* stored values that differ from a hash in one respect
Variants(h) ==
    {h,
     SubSeq(h, 1, 3),
     [h EXCEPT ![2] = "abc"],
     [h EXCEPT ![2] = "0"],
     [h EXCEPT ![3].junk = TRUE],
     [h EXCEPT ![3].padded = FALSE],
     [h EXCEPT ![4].junk = TRUE],
     [h EXCEPT ![4].padded = FALSE]}

\* user.password_hash = _hash_password(password)
PwHash ==
    /\ pw.stage \in {"none", "verified"}
    /\ \E p \in Passwords, salt \in Salts :
         pw' = [NoCheck EXCEPT !.stage = "hashed", !.password = p,
                               !.stored = HashPassword(p, salt)]
    /\ UNCHANGED <<payVars, tailVars>>
    /\ UNCHANGED coreVars

\* the column changed behind the application
PwCorrupt ==
    /\ pw.stage = "hashed"
    /\ \E v \in Variants(pw.stored) \ {pw.stored} :
         pw' = [pw EXCEPT !.stage = "corrupted", !.stored = v]
    /\ UNCHANGED <<payVars, tailVars>>
    /\ UNCHANGED coreVars

\* _verify_password(candidate, stored)
PwVerify ==
    /\ pw.stage \in {"hashed", "corrupted"}
    /\ \E q \in Passwords :
         pw' = [pw EXCEPT !.stage = "verified", !.candidate = q,
                          !.result = VerifyPassword(q, pw.stored)]
    /\ UNCHANGED <<payVars, tailVars>>
    /\ UNCHANGED coreVars

InitPassword ==
    /\ Started
    /\ AppIdle

NextPassword == PwHash \/ PwCorrupt \/ PwVerify

SpecPassword == InitPassword /\ [][NextPassword]_vars


\* ------------------------------------------- public paths, AuthMiddleware
MaxPathLen == 3
PathChars == {"/", "a", "b"}

RECURSIVE SeqsOver(_, _)
SeqsOver(chars, n) ==
    IF n = 0 THEN {<<>>}
    ELSE LET shorter == SeqsOver(chars, n - 1)
         IN  shorter \cup {Append(s, c) : s \in {t \in shorter : Len(t) = n - 1},
                                          c \in chars}

\* request.url.path and Route.path start with "/"
Paths == {Root \o s : s \in SeqsOver(PathChars, MaxPathLen - 1)}

\* the paths of the routes marked public: entries of the default list
\* ("/login"), a name next to a prefix of the list, a prefix below a name of
\* the list and a name of its own ("/logout")
RoutePaths == {Root, <<"/", "a">>, <<"/", "b">>, <<"/", "a", "/">>,
               <<"/", "a", "b">>}

\* str.startswith, str.endswith
StartsWith(s, prefix) ==
    Len(prefix) <= Len(s) /\ SubSeq(s, 1, Len(prefix)) = prefix
EndsWith(s, suffix) ==
    Len(suffix) <= Len(s) /\ SubSeq(s, Len(s) - Len(suffix) + 1, Len(s)) = suffix

\* the loop without the special case of the root
RECURSIVE IsPublicPathNoRootCase(_, _)
IsPublicPathNoRootCase(path, list) ==
    IF list = <<>> THEN FALSE
    ELSE LET p == Head(list)
         IN  IF EndsWith(p, Root)
             THEN IF StartsWith(path, p) THEN TRUE
                  ELSE IsPublicPathNoRootCase(path, Tail(list))
             ELSE IF path = p \/ StartsWith(path, p \o Root) THEN TRUE
                  ELSE IsPublicPathNoRootCase(path, Tail(list))

\* is_public_path (utils/auth.py 33-49): the loop over the list, with its
\* returns and its continue
RECURSIVE IsPublicPath(_, _)
IsPublicPath(path, list) ==
    IF list = <<>> THEN FALSE
    ELSE LET p == Head(list)
         IN  IF p = Root
             THEN IF path = Root THEN TRUE
                  ELSE IsPublicPath(path, Tail(list))
             ELSE IF EndsWith(p, Root)
             THEN IF StartsWith(path, p) THEN TRUE
                  ELSE IsPublicPath(path, Tail(list))
             ELSE IF path = p \/ StartsWith(path, p \o Root) THEN TRUE
                  ELSE IsPublicPath(path, Tail(list))

Entries(list) == {list[i] : i \in 1..Len(list)}

\* register_public_path (utils/auth.py 87-94)
RegisterPublicPathIn(path, list) ==
    IF path \notin Entries(list) THEN Append(list, path) ELSE list

\* the tokens a request can carry: signed with SECRET_KEY or not, expired or
\* not, with the claims login puts in
AuthTokens ==
    {[sig |-> "forged", expired |-> FALSE, sub |-> "alice",
      tenant |-> TenantA, active |-> TRUE]}
    \cup {[sig |-> "valid", expired |-> TRUE, sub |-> "alice",
           tenant |-> TenantA, active |-> TRUE]}
    \cup {[sig |-> "valid", expired |-> FALSE, sub |-> "alice",
           tenant |-> TenantA, active |-> a] : a \in BOOLEAN}

\* the Authorization header: absent, of another scheme, "Bearer " with an
\* empty value, or "Bearer <token>"
AuthHeaders ==
    {NoHeader, [scheme |-> "basic", token |-> NoToken]}
    \cup {[scheme |-> "bearer", token |-> t] : t \in AuthTokens \cup {NoToken}}

AcceptHeaders == SUBSET {"application/json", "text/html"}

\* main.py 66-73: the bearer value of the header, else the cookie
SelectToken(hdr, cookie) ==
    LET token == IF hdr.scheme = "bearer" THEN hdr.token ELSE NoToken
    IN  IF token = NoToken THEN cookie ELSE token

\* jwt.decode(token, SECRET_KEY, algorithms=[ALGORITHM]) (main.py 76-78)
JwtDecode(token) ==
    [raised |-> token.sig # "valid" \/ token.expired, payload |-> token]

\* unauth_response (utils/auth.py 52-61)
UnauthResponse(accept) ==
    IF "application/json" \in accept /\ "text/html" \notin accept
    THEN "json401" ELSE "redirect_login"

\* the enforcement without the test of the path and the user
EnforceNothing(public, user, accept) == "handler"

\* main.py 103-112
Enforce(public, user, accept) ==
    IF ~public /\ ~user.set THEN UnauthResponse(accept) ELSE "handler"

\* AuthMiddleware.dispatch (main.py 63-120)
DispatchOutcome(path, hdr, cookie, accept, list) ==
    LET token == SelectToken(hdr, cookie)
        decoded == JwtDecode(token)
        ok == token # NoToken /\ ~decoded.raised
        user == IF ok THEN [set |-> TRUE, username |-> decoded.payload.sub,
                            is_active |-> decoded.payload.active]
                ELSE NoUser
    IN  [path |-> path, hdr |-> hdr, cookie |-> cookie, accept |-> accept,
         user |-> user,
         tenant |-> IF ok THEN decoded.payload.tenant ELSE None,
         response |-> Enforce(IsPublicPath(path, list), user, accept)]

authRest == <<coreVars, payVars, pw, loginVars, metaVars, domVars>>

\* lifespan registers the path of a route marked public (main.py 37-50)
RegisterPublicPath ==
    /\ ~serving
    /\ \E path \in RoutePaths :
         publicPaths' = RegisterPublicPathIn(path, publicPaths)
    /\ UNCHANGED <<serving, areq>>
    /\ UNCHANGED authRest

\* lifespan yields (main.py 57)
Serve ==
    /\ ~serving
    /\ serving' = TRUE
    /\ UNCHANGED <<publicPaths, areq>>
    /\ UNCHANGED authRest

AuthDispatch ==
    /\ serving
    /\ areq = NoAuthRequest
    /\ \E path \in Paths, hdr \in AuthHeaders, cookie \in AuthTokens \cup {NoToken},
          accept \in AcceptHeaders :
         areq' = DispatchOutcome(path, hdr, cookie, accept, publicPaths)
    /\ UNCHANGED <<publicPaths, serving>>
    /\ UNCHANGED authRest

\* the response is out
AuthDone ==
    /\ areq # NoAuthRequest
    /\ areq' = NoAuthRequest
    /\ UNCHANGED <<publicPaths, serving>>
    /\ UNCHANGED authRest

InitAuth ==
    /\ Started
    /\ AppIdle

NextAuth == RegisterPublicPath \/ Serve \/ AuthDispatch \/ AuthDone

SpecAuth == InitAuth /\ [][NextAuth]_vars


\* ------------------------------------------------- /login and /api/token
MaxCreds == 2
LoginNames == {"alice", "bob"}
LoginTenants == {TenantA, TenantB}

\* the passwords of the forms: they start with a character that is not NUL
LoginPasswords == {p \in Passwords : p # <<>> /\ p[1] = "a"}

\* a row of shared.users; password is the one the hash was made of
CredRow(t, u, p, salt, active) ==
    [tenant |-> t, username |-> u, password |-> p,
     password_hash |-> HashPassword(p, salt), is_active |-> active]

\* password_hash is what _hash_password wrote
Intact(row) == \E salt \in Salts : row.password_hash = HashPassword(row.password, salt)

\* db.query(User).filter(User.username == username): the ids of the rows
Matching(u) == {i \in 1..Len(creds) : creds[i].username = u}

\* the same with the tenant in the filter
MatchingIn(u, t) == {i \in Matching(u) : creds[i].tenant = t}

\* the template of the form with the error / the HTTPException
\* (auth.py 103-124, 155-160)
InvalidCredentials(endpoint) ==
    IF endpoint = "login"
    THEN [status |-> 200, body |-> "login.html login.invalid_credentials",
          token |-> NoToken]
    ELSE [status |-> 401, body |-> "Invalid credentials", token |-> NoToken]

\* payload and jwt.encode (auth.py 126-137, 162-172)
IssuedToken(row) ==
    [sig |-> "valid", expired |-> FALSE, sub |-> row.username,
     tenant |-> row.tenant, active |-> row.is_active]

\* the redirect with the cookie / the JSON body (auth.py 139-141, 173)
LoggedIn(endpoint, row) ==
    IF endpoint = "login"
    THEN [status |-> 302, body |-> "/members", token |-> IssuedToken(row)]
    ELSE [status |-> 200, body |-> "bearer", token |-> IssuedToken(row)]

\* login_post (auth.py 97-141) and api_token (auth.py 150-173) after the
\* query: i is the row .first() returned, 0 for none
LoginAnswer(endpoint, u, p, i) ==
    [stage |-> "answered", endpoint |-> endpoint, username |-> u,
     password |-> p, row |-> i,
     response |->
        IF i = 0 THEN InvalidCredentials(endpoint)
        ELSE IF VerifyPassword(p, creds[i].password_hash) # "True"
        THEN InvalidCredentials(endpoint)
        ELSE LoggedIn(endpoint, creds[i])]

\* .first() of a query without ORDER BY: any of the matching rows, None (0)
\* when there is none
First(ids) == IF ids = {} THEN {0} ELSE ids

loginRest == <<coreVars, payVars, pw, metaVars, domVars>>

\* create_shared_user (database.py 133-172)
CreateUser ==
    /\ Len(creds) < MaxCreds
    /\ login = NoLogin
    /\ \E t \in LoginTenants, p \in LoginPasswords, active \in BOOLEAN :
         /\ MatchingIn("alice", t) = {}
         /\ creds' = Append(creds, CredRow(t, "alice", p, <<"s1">>, active))
    /\ UNCHANGED login
    /\ UNCHANGED authVars
    /\ UNCHANGED loginRest

\* password_hash changed behind the application
CredCorrupt ==
    /\ login = NoLogin
    /\ \A i \in 1..Len(creds) : Intact(creds[i])
    /\ \E i \in 1..Len(creds) :
         \E v \in Variants(creds[i].password_hash) \ {creds[i].password_hash} :
            creds' = [creds EXCEPT ![i].password_hash = v]
    /\ UNCHANGED login
    /\ UNCHANGED authVars
    /\ UNCHANGED loginRest

LoginPost ==
    /\ login = NoLogin
    /\ \E u \in LoginNames, p \in LoginPasswords :
         \E i \in First(Matching(u)) :
            login' = LoginAnswer("login", u, p, i)
    /\ UNCHANGED creds
    /\ UNCHANGED authVars
    /\ UNCHANGED loginRest

ApiToken ==
    /\ login = NoLogin
    /\ \E u \in LoginNames, p \in LoginPasswords :
         \E i \in First(Matching(u)) :
            login' = LoginAnswer("api_token", u, p, i)
    /\ UNCHANGED creds
    /\ UNCHANGED authVars
    /\ UNCHANGED loginRest

\* the client comes back with what login gave it: the browser with the cookie
\* of /login, the API client with the bearer token of /api/token
UseToken ==
    /\ login.stage = "answered"
    /\ areq = NoAuthRequest
    /\ \E path \in Paths :
         areq' = IF login.endpoint = "login"
                 THEN DispatchOutcome(path, NoHeader, login.response.token,
                                      {"text/html"}, publicPaths)
                 ELSE DispatchOutcome(path, [scheme |-> "bearer",
                                             token |-> login.response.token],
                                      NoToken, {"application/json"}, publicPaths)
    /\ UNCHANGED <<publicPaths, serving>>
    /\ UNCHANGED loginVars
    /\ UNCHANGED loginRest

\* the client is gone
LoginDone ==
    /\ login.stage = "answered"
    /\ login' = NoLogin
    /\ areq' = NoAuthRequest
    /\ UNCHANGED <<publicPaths, serving>>
    /\ UNCHANGED creds
    /\ UNCHANGED loginRest

InitLogin ==
    /\ Started
    /\ PaymentsIdle
    /\ pw = NoCheck
    /\ LoginIdle
    /\ MetaIdle
    /\ DomIdle
    /\ publicPaths = DEFAULT_PUBLIC_PATHS
    /\ serving = TRUE
    /\ areq = NoAuthRequest

NextLogin ==
    CreateUser \/ CredCorrupt \/ LoginPost \/ ApiToken \/ UseToken \/ LoginDone

SpecLogin == InitLogin /\ [][NextLogin]_vars


\* ------------------------------------- create_tenant_schema_and_tables
metaRest == <<coreVars, payVars, pw, authVars, loginVars, domVars>>

\* a thread enters the function; validate_schema_name and
\* ensure_schema_exists have passed (database.py 70-76)
MetaEnter(p) ==
    /\ mt[p].pc = "idle"
    /\ \E t \in {TenantA, TenantB} :
         mt' = [mt EXCEPT ![p] = [NoMetaCall EXCEPT !.pc = "save", !.tenant = t]]
    /\ UNCHANGED <<meta, created>>
    /\ UNCHANGED metaRest

\* original_schemas = {t: t.schema for t in tables}, one table at a time
\* (database.py 77)
MetaSave(p) ==
    /\ mt[p].pc = "save"
    /\ LET i == mt[p].i
           r == [mt[p] EXCEPT !.original[i] = meta[i]]
       IN  mt' = [mt EXCEPT ![p] =
                IF i = NumTables THEN [r EXCEPT !.pc = "assign", !.i = 1]
                ELSE [r EXCEPT !.i = i + 1]]
    /\ UNCHANGED <<meta, created>>
    /\ UNCHANGED metaRest

\* if t.schema is None: t.schema = tenant_schema (database.py 81-84)
MetaAssign(p) ==
    /\ mt[p].pc = "assign"
    /\ LET i == mt[p].i
       IN  /\ meta' = IF meta[i] = None THEN [meta EXCEPT ![i] = mt[p].tenant]
                      ELSE meta
           /\ mt' = [mt EXCEPT ![p] =
                IF i = NumTables THEN [mt[p] EXCEPT !.pc = "select", !.i = 1]
                ELSE [mt[p] EXCEPT !.i = i + 1]]
    /\ UNCHANGED created
    /\ UNCHANGED metaRest

\* tenant_tables = [t for t in tables if t.schema == tenant_schema]
\* (database.py 87)
MetaSelect(p) ==
    /\ mt[p].pc = "select"
    /\ mt' = [mt EXCEPT ![p] =
            [mt[p] EXCEPT !.pc = "create",
                          !.tenant_tables =
                              {k \in 1..NumTables : meta[k] = mt[p].tenant}]]
    /\ UNCHANGED <<meta, created>>
    /\ UNCHANGED metaRest

\* the tables create_all creates: it renders each with the schema attribute
\* the Table has when the statement is compiled
CreateAll(tabs, tenant) == {<<meta[k], MetaTables[k]>> : k \in tabs}

\* if tenant_tables: Base.metadata.create_all(...), which can raise
\* (database.py 88-89)
MetaCreate(p) ==
    /\ mt[p].pc = "create"
    /\ \E ok \in BOOLEAN :
         /\ created' = IF ok THEN created \cup CreateAll(mt[p].tenant_tables, mt[p].tenant)
                       ELSE created
         /\ mt' = [mt EXCEPT ![p] =
                [mt[p] EXCEPT !.pc = "restore", !.raised = ~ok]]
    /\ UNCHANGED meta
    /\ UNCHANGED metaRest

\* t.schema = orig (database.py 92-93)
Restore(original, i, m) == [m EXCEPT ![i] = original[i]]

MetaRestore(p) ==
    /\ mt[p].pc = "restore"
    /\ LET i == mt[p].i
       IN  /\ meta' = Restore(mt[p].original, i, meta)
           /\ mt' = [mt EXCEPT ![p] =
                IF i = NumTables THEN [mt[p] EXCEPT !.pc = "done", !.i = 1]
                ELSE [mt[p] EXCEPT !.i = i + 1]]
    /\ UNCHANGED created
    /\ UNCHANGED metaRest

InitMeta ==
    /\ Started
    /\ AppIdle

NextMeta ==
    \E p \in Procs :
        \/ MetaEnter(p)
        \/ MetaSave(p)
        \/ MetaAssign(p)
        \/ MetaSelect(p)
        \/ MetaCreate(p)
        \/ MetaRestore(p)

SpecMeta == InitMeta /\ [][NextMeta]_vars


\* ------------------------------ levels, locations, prices and their users
MaxId == 1
MaxMembers == 1
Ids == 1..MaxId
MemberIds == 1..MaxMembers

\* the ids a form can send: those of the tables and one that no row has
FormIds == 0..MaxId

domRest == <<coreVars, payVars, pw, authVars, loginVars, metaVars>>

MemberOf(id) == {m \in dom.members : m.id = id}
PaymentOf(id) == {y \in dom.payments : y.id = id}

\* a delete without the test of the references
NeverReferenced(id) == FALSE

\* db.query(Member).filter(Member.location_id == location_id).first(), and
\* the same for the level and for the price of a payment
\* (settings.py 256, 340, 421)
LocationReferenced(id) == \E m \in dom.members : m.location = id
LevelReferenced(id) == \E m \in dom.members : m.level = id
PriceReferenced(id) == \E y \in dom.payments : y.price = id

\* the foreign keys of members (models.py 204-205): the database refuses a
\* row that names a level or a location no row has
ForeignKeysHold(level, location) ==
    level \in dom.levels /\ location \in dom.locations

DomAnswer(op, id, outcome, referenced) ==
    [op |-> op, id |-> id, outcome |-> outcome, referenced |-> referenced]

\* settings_location_create (settings.py 191-219); the name is taken or not
SettingsLocationCreate ==
    /\ \E id \in Ids \ dom.locations, taken \in BOOLEAN :
         IF taken
         THEN /\ dreq' = DomAnswer("location_create", id, "exists", FALSE)
              /\ dom' = dom
         ELSE /\ dreq' = DomAnswer("location_create", id, "created", FALSE)
              /\ dom' = [dom EXCEPT !.locations = @ \cup {id}]
    /\ UNCHANGED domRest

\* settings_level_create (settings.py 270-298)
SettingsLevelCreate ==
    /\ \E id \in Ids \ dom.levels, taken \in BOOLEAN :
         IF taken
         THEN /\ dreq' = DomAnswer("level_create", id, "exists", FALSE)
              /\ dom' = dom
         ELSE /\ dreq' = DomAnswer("level_create", id, "created", FALSE)
              /\ dom' = [dom EXCEPT !.levels = @ \cup {id}]
    /\ UNCHANGED domRest

\* settings_price_create (settings.py 354-382); the amount parses or not
SettingsPriceCreate ==
    /\ \E id \in Ids \ dom.prices, valid \in BOOLEAN :
         IF ~valid
         THEN /\ dreq' = DomAnswer("price_create", id, "invalid", FALSE)
              /\ dom' = dom
         ELSE /\ dreq' = DomAnswer("price_create", id, "created", FALSE)
              /\ dom' = [dom EXCEPT !.prices = @ \cup {id}]
    /\ UNCHANGED domRest

\* settings_location_delete (settings.py 245-267)
SettingsLocationDelete ==
    /\ \E id \in FormIds :
         IF id \notin dom.locations
         THEN /\ dreq' = DomAnswer("location_delete", id, "not_found", FALSE)
              /\ dom' = dom
         ELSE IF LocationReferenced(id)
         THEN /\ dreq' = DomAnswer("location_delete", id, "in_use", TRUE)
              /\ dom' = dom
         ELSE IF \E m \in dom.members : m.location = id
         THEN \* the DELETE meets the foreign key of members
              /\ dreq' = DomAnswer("location_delete", id, "error", FALSE)
              /\ dom' = dom
         ELSE /\ dreq' = DomAnswer("location_delete", id, "deleted", FALSE)
              /\ dom' = [dom EXCEPT !.locations = @ \ {id}]
    /\ UNCHANGED domRest

\* settings_level_delete (settings.py 329-351)
SettingsLevelDelete ==
    /\ \E id \in FormIds :
         IF id \notin dom.levels
         THEN /\ dreq' = DomAnswer("level_delete", id, "not_found", FALSE)
              /\ dom' = dom
         ELSE IF LevelReferenced(id)
         THEN /\ dreq' = DomAnswer("level_delete", id, "in_use", TRUE)
              /\ dom' = dom
         ELSE IF \E m \in dom.members : m.level = id
         THEN /\ dreq' = DomAnswer("level_delete", id, "error", FALSE)
              /\ dom' = dom
         ELSE /\ dreq' = DomAnswer("level_delete", id, "deleted", FALSE)
              /\ dom' = [dom EXCEPT !.levels = @ \ {id}]
    /\ UNCHANGED domRest

\* settings_price_delete (settings.py 409-432); a payment the test did not
\* see would lose its price_id with the row: the column is nullable and the
\* relationship has no cascade
SettingsPriceDelete ==
    /\ \E id \in FormIds :
         IF id \notin dom.prices
         THEN /\ dreq' = DomAnswer("price_delete", id, "not_found", FALSE)
              /\ dom' = dom
         ELSE IF PriceReferenced(id)
         THEN /\ dreq' = DomAnswer("price_delete", id, "in_use", TRUE)
              /\ dom' = dom
         ELSE /\ dreq' = DomAnswer("price_delete", id, "deleted", FALSE)
              /\ dom' = [dom EXCEPT
                    !.prices = @ \ {id},
                    !.payments = {IF y.price = id THEN [y EXCEPT !.price = 0]
                                  ELSE y : y \in @}]
    /\ UNCHANGED domRest

\* members_create_post (members.py 260-339): no test of the ids, the commit
\* meets the foreign keys
MembersCreatePost ==
    /\ \E id \in MemberIds, level \in FormIds, location \in FormIds :
         /\ MemberOf(id) = {}
         /\ IF ForeignKeysHold(level, location)
            THEN /\ dreq' = DomAnswer("member_create", id, "created", FALSE)
                 /\ dom' = [dom EXCEPT !.members = @ \cup
                              {[id |-> id, level |-> level, location |-> location]}]
            ELSE /\ dreq' = DomAnswer("member_create", id, "error", FALSE)
                 /\ dom' = dom
    /\ UNCHANGED domRest

\* members_edit_post (members.py 369-434)
MembersEditPost ==
    /\ \E id \in MemberIds, level \in FormIds, location \in FormIds :
         IF MemberOf(id) = {}
         THEN /\ dreq' = DomAnswer("member_edit", id, "not_found", FALSE)
              /\ dom' = dom
         ELSE IF ForeignKeysHold(level, location)
         THEN /\ dreq' = DomAnswer("member_edit", id, "updated", FALSE)
              /\ dom' = [dom EXCEPT !.members = (@ \ MemberOf(id)) \cup
                           {[id |-> id, level |-> level, location |-> location]}]
         ELSE /\ dreq' = DomAnswer("member_edit", id, "error", FALSE)
              /\ dom' = dom
    /\ UNCHANGED domRest

\* members_delete (members.py 437-449): the payments go with the member
\* (cascade="all, delete-orphan", models.py 210-212)
MembersDelete ==
    /\ \E id \in MemberIds :
         IF MemberOf(id) = {}
         THEN /\ dreq' = DomAnswer("member_delete", id, "not_found", FALSE)
              /\ dom' = dom
         ELSE /\ dreq' = DomAnswer("member_delete", id, "deleted", FALSE)
              /\ dom' = [dom EXCEPT !.members = @ \ MemberOf(id),
                                    !.payments = {y \in @ : y.member # id}]
    /\ UNCHANGED domRest

\* member_payments_create (members.py 508-560), one payment a member here:
\* the test of the period is PaymentCreateCheck
MemberPaymentsCreate ==
    /\ \E id \in MemberIds, price \in FormIds :
         IF MemberOf(id) = {}
         THEN /\ dreq' = DomAnswer("payment_create", id, "not_found", FALSE)
              /\ dom' = dom
         ELSE IF price \notin dom.prices
         THEN /\ dreq' = DomAnswer("payment_create", id, "price_missing", FALSE)
              /\ dom' = dom
         ELSE IF PaymentOf(id) # {}
         THEN /\ dreq' = DomAnswer("payment_create", id, "duplicate", FALSE)
              /\ dom' = dom
         ELSE /\ dreq' = DomAnswer("payment_create", id, "created", FALSE)
              /\ dom' = [dom EXCEPT !.payments = @ \cup
                           {[id |-> id, member |-> id, price |-> price]}]
    /\ UNCHANGED domRest

\* member_payment_edit_post (members.py 597-651)
MemberPaymentEditPost ==
    /\ \E id \in MemberIds, price \in FormIds :
         IF PaymentOf(id) = {}
         THEN /\ dreq' = DomAnswer("payment_edit", id, "not_found", FALSE)
              /\ dom' = dom
         ELSE IF price \notin dom.prices
         THEN /\ dreq' = DomAnswer("payment_edit", id, "price_missing", FALSE)
              /\ dom' = dom
         ELSE /\ dreq' = DomAnswer("payment_edit", id, "updated", FALSE)
              /\ dom' = [dom EXCEPT !.payments = (@ \ PaymentOf(id)) \cup
                           {[id |-> id, member |-> id, price |-> price]}]
    /\ UNCHANGED domRest

\* member_payment_delete (members.py 654-671)
MemberPaymentDelete ==
    /\ \E id \in MemberIds :
         IF PaymentOf(id) = {}
         THEN /\ dreq' = DomAnswer("payment_delete", id, "not_found", FALSE)
              /\ dom' = dom
         ELSE /\ dreq' = DomAnswer("payment_delete", id, "deleted", FALSE)
              /\ dom' = [dom EXCEPT !.payments = @ \ PaymentOf(id)]
    /\ UNCHANGED domRest

InitDom ==
    /\ Started
    /\ AppIdle

NextDom ==
    \/ SettingsLocationCreate
    \/ SettingsLevelCreate
    \/ SettingsPriceCreate
    \/ SettingsLocationDelete
    \/ SettingsLevelDelete
    \/ SettingsPriceDelete
    \/ MembersCreatePost
    \/ MembersEditPost
    \/ MembersDelete
    \/ MemberPaymentsCreate
    \/ MemberPaymentEditPost
    \/ MemberPaymentDelete

SpecDom == InitDom /\ [][NextDom]_vars

\* ------------------------------------------------------------ properties

\* C1: every unqualified reference a session of tenant T issues while it is
\* open, also after a commit or a rollback of the handler, resolves with the
\* search order [T, shared, public]
C1_TenantSearchOrder ==
    \A s \in Sess :
        (sess[s].open /\ Truthy(sess[s].tenant) /\ sess[s].obs # NoObs)
            => sess[s].obs = TenantSearchPath(sess[s].tenant)

\* C2: a session opened with no tenant reaches only the shared and the
\* default schema, whatever earlier sessions did on the pooled connection
C2_NoCrossSessionLeak ==
    \A s \in Sess :
        (sess[s].open /\ ~Truthy(sess[s].tenant) /\ sess[s].obs # NoObs)
            => \A i \in 1..Len(sess[s].obs) :
                   sess[s].obs[i] \in {SHARED_SCHEMA, PUBLIC}

\* C3: a tenant identifier with a character outside [A-Za-z0-9_] is refused
\* with the invalid-identifier error and no schema of that name exists
C3_InvalidIdentifierRejected ==
    /\ \A s \in Sess :
        (sess[s].pc # "new" /\ Truthy(sess[s].tenant) /\ HasBadChar(sess[s].tenant))
            => sess[s].outcome \in {"http400", "valueerror"}
    /\ \A n \in TenantNames : HasBadChar(n) => n \notin schemas

\* C6: once the operation that opened a session has finished, on whatever
\* path, the session is closed and holds no connection; with no request in
\* flight every connection is back in the pool
C6_SessionsClosed ==
    /\ \A s \in Sess :
        sess[s].pc = "finished" => ~sess[s].open /\ sess[s].conn = 0
    /\ (\A s \in Sess : sess[s].pc \in {"new", "finished"}) => Len(idle) = nconn

C6_Witness ==
    \E s \in Sess, t \in Sess :
        /\ sess[s].outcome = "handler_exc" /\ sess[s].yielded
        /\ sess[t].outcome \in {"http400", "dberror", "seterror"}

\* C7: when the creation of the tenant schema fails, the error reaches the
\* caller, the session was never yielded and it is closed
C7_ProvisioningFailure ==
    \A s \in Sess :
        sess[s].outcome = "dberror"
            => sess[s].pc = "finished" /\ ~sess[s].yielded /\ ~sess[s].open

C7_Witness ==
    \E s \in Sess : sess[s].outcome = "dberror" /\ sess[s].pc = "finished"

RECURSIVE FirstNonEmpty(_)
FirstNonEmpty(seq) ==
    IF seq = <<>> THEN None
    ELSE IF Truthy(Head(seq)) THEN Head(seq)
    ELSE FirstNonEmpty(Tail(seq))

\* C5: get_db resolves the tenant as the first non-empty value of the token's
\* tenant claim, the X-Tenant header, the tenant query parameter and
\* DEFAULT_TENANT_SCHEMA, else none; a valid token for T always gets T
C5_ResolutionOrder ==
    rq.pc = "resolved" =>
        /\ rq.resolved =
              FirstNonEmpty(<<IF rq.token.present /\ rq.token.valid
                              THEN rq.token.tenant ELSE None,
                             rq.hdr, rq.qp, env>>)
        /\ (rq.token.valid /\ Truthy(rq.token.tenant))
              => rq.resolved = rq.token.tenant

C5_Witness ==
    /\ rq.pc = "resolved"
    /\ rq.token.valid /\ rq.token.tenant = TenantA
    /\ rq.hdr = TenantB /\ rq.qp = TenantB /\ env = TenantB
    /\ rq.resolved = TenantA

\* C4: a --schema NAME that does not match ^[A-Za-z0-9_]+$ is refused before
\* any statement that embeds the name is issued
C4_InvalidNameNotEmbedded ==
    (~cli.all /\ Truthy(cli.schema) /\ ~MatchesPattern(cli.schema))
        => cli.schema \notin embedded

Migrating == cli.cmd \in {"upgrade", "downgrade", "stamp"}

\* C8: with --all every discovered schema is attempted exactly once, in
\* discovery order, whatever the earlier outcomes; a schema that succeeded
\* keeps its new marker and is reported as successful, a schema that failed
\* is reported as failed
C8_AllSchemasAttempted ==
    (cli.pc = "done" /\ cli.all /\ Migrating) =>
        /\ [k \in 1..Len(cli.attempts) |-> cli.attempts[k].schema] = cli.queue
        /\ \A k \in 1..Len(cli.attempts) :
             LET a == cli.attempts[k]
             IN  /\ a.ok => /\ cli.summary[k] = "Success"
                            /\ a.after = Target(cli.cmd, cli.rev, a.before)
                            /\ marker[a.schema] = a.after
                 /\ ~a.ok => cli.summary[k] # "Success"

C8_Witness ==
    /\ cli.pc = "done" /\ cli.all /\ cli.cmd = "upgrade"
    /\ Len(cli.attempts) >= 2
    /\ ~cli.attempts[1].ok /\ cli.attempts[2].ok
    /\ cli.attempts[1].schema = TenantA /\ cli.attempts[2].schema = TenantB
    /\ marker[TenantB] = NumRevs /\ marker[TenantA] = 0

\* C9 as stated: with --all or --schema NAME the exit code is 1 exactly when
\* a processed schema failed
C9_ExitCodeAnyName ==
    (cli.pc = "done" /\ Migrating /\ (cli.all \/ cli.schema # None)) =>
        (cli.exit = 1 <=> \E k \in 1..Len(cli.attempts) : ~cli.attempts[k].ok)

\* C9 amended: with --all or a non-empty --schema NAME the exit code is 1
\* exactly when a processed schema failed; an empty NAME without --all exits
\* with 1 and processes nothing
C9_ExitCode ==
    (cli.pc = "done" /\ Migrating) =>
        /\ (cli.all \/ Truthy(cli.schema)) =>
             (cli.exit = 1 <=> \E k \in 1..Len(cli.attempts) : ~cli.attempts[k].ok)
        /\ (~cli.all /\ cli.schema = EmptyStr) =>
             (cli.exit = 1 /\ cli.attempts = <<>>)

C9_Witness ==
    /\ cli.pc = "done" /\ cli.cmd = "stamp" /\ cli.all
    /\ cli.exit = 1
    /\ \E k \in 1..Len(cli.attempts) : cli.attempts[k].ok
    /\ \E k \in 1..Len(cli.attempts) : ~cli.attempts[k].ok

\* C10: a marker changes only in a successful upgrade, downgrade or stamp of
\* its schema, to the target; a failed upgrade_schema or downgrade_schema
\* leaves the marker of its schema as it was
C10_MarkerFrame ==
    [][ LET n0 == Len(cli.attempts)
            stepped == Len(cli'.attempts) = n0 + 1
        IN  /\ \A n \in MarkerNames :
                 marker'[n] # marker[n] =>
                     /\ stepped /\ Migrating
                     /\ cli'.attempts[n0 + 1].schema = n
                     /\ cli'.attempts[n0 + 1].ok
                     /\ marker'[n] = Target(cli.cmd, cli.rev, marker[n])
            /\ (stepped /\ cli.cmd \in {"upgrade", "downgrade"}
                        /\ ~cli'.attempts[n0 + 1].ok) => marker' = marker
      ]_vars

C10_Witness ==
    /\ cli.cmd = "downgrade"
    /\ \E k \in 1..Len(cli.attempts) :
         /\ ~cli.attempts[k].ok
         /\ cli.attempts[k].before = NumRevs
         /\ cli.attempts[k].schema \in MarkerNames
         /\ marker[cli.attempts[k].schema] = NumRevs

\* C11: upgrade_schema, downgrade_schema and stamp_schema applied to schema S
\* leave the marker and the marker table of every other schema as they were
C11_OtherMarkersUnchanged ==
    [][ LET n0 == Len(cli.attempts)
        IN  (Len(cli'.attempts) = n0 + 1 /\ Migrating) =>
              \A n \in (MarkerNames \cup verTable \cup verTable')
                          \ {cli'.attempts[n0 + 1].schema} :
                  /\ n \in MarkerNames => marker'[n] = marker[n]
                  /\ n \in verTable' <=> n \in verTable
      ]_vars

C11_Witness ==
    /\ cli.cmd = "downgrade"
    /\ \E k \in 1..Len(cli.attempts) :
         /\ cli.attempts[k].schema = TenantB
         /\ cli.attempts[k].ok
         /\ cli.attempts[k].before = NumRevs
         /\ cli.attempts[k].after = 0
    /\ marker[TenantB] = 0
    /\ marker[TenantA] = NumRevs
    /\ TenantA \in verTable

\* the objects of the revisions up to index m exist in schema n: revision
\* daf594c78b31 makes the one table users, and the only users table the
\* migration ever makes is shared.users
RevisionObjectsIn(n, m) ==
    \A k \in 1..m : n = SHARED_SCHEMA /\ sharedUsers

\* C12: a successful upgrade_schema(S) creates or alters objects in S only,
\* creates no schema other than S, and leaves the marker of S naming exactly
\* the revisions whose objects exist in S
C12_UpgradeScopedToSchema ==
    cli.cmd = "upgrade" =>
        \A k \in 1..Len(cli.attempts) :
            LET a == cli.attempts[k]
            IN  (a.ok /\ a.schema \in MarkerNames) =>
                    /\ a.ddl \subseteq {a.schema}
                    /\ RevisionObjectsIn(a.schema, marker[a.schema])

\* C13: stamp_schema(S, R) sets the marker of S to what R resolves to and
\* runs no migration step: no schema is created and no table but the marker
\* table is created or dropped; the marker table is created only if missing
C13_StampOnlyMarks ==
    cli.cmd = "stamp" =>
        \A k \in 1..Len(cli.attempts) :
            LET a == cli.attempts[k]
            IN  /\ a.ddl = {}
                /\ a.ok => /\ a.after = Target("stamp", cli.rev, a.before)
                           /\ a.schema \in verTable
                /\ (k = Len(cli.attempts) /\ a.ok /\ a.schema \in MarkerNames)
                      => marker[a.schema] = a.after
                /\ (a.hadTable /\ Target("stamp", cli.rev, a.before) >= 0)
                      => ~a.ensureRaised

C13_Witness ==
    /\ cli.cmd = "stamp" /\ cli.rev = "head"
    /\ Len(cli.attempts) = 1
    /\ cli.attempts[1].schema = TenantA
    /\ cli.attempts[1].ok
    /\ ~cli.attempts[1].hadTable
    /\ cli.attempts[1].before = 0
    /\ marker[TenantA] = NumRevs
    /\ TenantA \in verTable
    /\ ~sharedUsers
    /\ SHARED_SCHEMA \notin schemas

\* C14: ensure_alembic_version_table creates the marker table only when it
\* is absent; with the table present it changes nothing, raises nothing and
\* keeps the stored marker, so a second call changes nothing after the first
C14_EnsureIdempotent ==
    /\ \A S \in SchemaArgs \cup {SHARED_SCHEMA}, ok1 \in BOOLEAN, ok2 \in BOOLEAN :
         LET once == EnsureAlembicVersionTable(S, verTable, ok1)
             twice == EnsureAlembicVersionTable(S, once.tables, ok2)
         IN  /\ S \in verTable => (once.tables = verTable /\ ~once.raised
                                                          /\ ~once.create)
             /\ ~once.raised => (twice.tables = once.tables /\ ~twice.raised
                                                            /\ ~twice.create)
             /\ once.tables \ verTable \subseteq {S}
    /\ \A k \in 1..Len(cli.attempts) :
         LET a == cli.attempts[k]
         IN  a.hadTable => /\ ~a.ensureRaised
                           /\ a.schema \in verTable
                           /\ cli.cmd = "current" => a.after = a.before

C14_Witness ==
    /\ cli.cmd = "current"
    /\ \E k \in 1..Len(cli.attempts) :
         /\ cli.attempts[k].hadTable
         /\ cli.attempts[k].schema = TenantA
         /\ cli.attempts[k].before = NumRevs
    /\ marker[TenantA] = NumRevs

\* C16: with --all the schemas worked on are exactly the schemas of the
\* catalog outside EXCLUDE_SCHEMAS, each once, in ascending order of their
\* names, and no attempt is ever made on a schema of EXCLUDE_SCHEMAS
C16_DiscoveryExcludes ==
    [][ /\ (cli.pc \in {"idle", "done"} /\ cli' # cli /\ cli'.all) =>
              /\ {cli'.queue[k] : k \in 1..Len(cli'.queue)}
                    = schemas \ {<<"information_schema">>, <<"pg_catalog">>,
                                 <<"pg_toast">>, <<"public">>}
              /\ \A i \in 1..Len(cli'.queue), j \in 1..Len(cli'.queue) :
                    i < j => NameLess(cli'.queue[i], cli'.queue[j])
        /\ cli'.all => \A k \in 1..Len(cli'.attempts) :
              cli'.attempts[k].schema \notin
                  {<<"information_schema">>, <<"pg_catalog">>,
                   <<"pg_toast">>, <<"public">>}
      ]_vars

C16_Witness ==
    /\ cli.all /\ cli.cmd = "current" /\ cli.pc = "done"
    /\ cli.queue = <<TenantA, TenantB, SHARED_SCHEMA>>
    /\ Len(cli.attempts) = 3

\* C15: for every valid name, ensure_schema_exists called twice in a row
\* succeeds both times and the second call leaves the catalog as the first
\* left it, with the schema in it; the call touches no table and no row
C15_EnsureSchemaIdempotent ==
    /\ [](\A n \in TenantNames :
            ValidateSchemaName(n) =>
                LET once == CreateSchemaIfNotExists(n, schemas, TRUE)
                    twice == CreateSchemaIfNotExists(n, once.catalog, TRUE)
                IN  /\ ~once.raised /\ ~twice.raised
                    /\ once.catalog = schemas \cup {n}
                    /\ twice.catalog = once.catalog)
    /\ [][\A s \in Sess :
            (sess[s].pc = "ensure" /\ sess'[s].pc = "setpath") =>
                /\ schemas' = schemas \cup {sess[s].tenant}
                /\ sess[s].tenant \in schemas => schemas' = schemas
                /\ UNCHANGED <<users, tenantTables, verTable, marker, sharedUsers>>
         ]_vars

C15_Witness ==
    \E s \in Sess, t \in Sess :
        /\ s # t
        /\ sess[s].tenant = TenantA /\ sess[t].tenant = TenantA
        /\ sess[s].pc = "setpath" /\ sess[t].pc = "setpath"
        /\ TenantA \in schemas

\* C17: after a successful signup for tenant T the schema T exists, and after
\* init_db with DEFAULT_TENANT_SCHEMA = T the schema T exists (no action of
\* the application or of the CLI removes a schema from the catalog)
C17_SchemaOnFirstReference ==
    /\ \A p \in Procs :
         (calls[p].pc = "done" /\ calls[p].op = "signup" /\ calls[p].outcome = "ok")
             => calls[p].tenant \in schemas
    /\ (booted /\ Truthy(env)) => env \in schemas

\* C18: under every interleaving of signups shared.users never holds two
\* records with the same (tenant_schema, username); a signup for a username
\* that exists in the tenant ends in a conflict and adds no record, a signup
\* for a username that exists in another tenant only adds its record
C18_UniqueUsernamePerTenant ==
    /\ [](\A r \in BagToSet(users) :
            /\ CopiesIn(r, users) = 1
            /\ \A q \in BagToSet(users) :
                 (q.tenant = r.tenant /\ q.username = r.username) => q = r)
    /\ [][\A p \in Procs :
            LET c == calls[p]
            IN  (c.pc \in {"check", "commit"} /\ calls'[p] # c /\ sharedUsers) =>
                  IF \E r \in BagToSet(users) :
                         r.tenant = c.tenant /\ r.username = c.username
                  THEN /\ calls'[p].pc = "done"
                       /\ calls'[p].outcome = "username_conflict"
                       /\ calls'[p].status = 400
                       /\ users' = users
                  ELSE IF c.pc = "check"
                  THEN calls'[p].pc = "commit" /\ users' = users
                  ELSE /\ calls'[p].outcome = "ok"
                       /\ calls'[p].status = 200
                       /\ users' = users (+) SetToBag({Row(c.tenant, c.username, c.email)})
         ]_vars

C18_Witness ==
    /\ BagIn(Row(TenantA, "alice", NoEmail), users)
    /\ BagIn(Row(TenantB, "alice", NoEmail), users)
    /\ \E p \in Procs :
         /\ calls[p].pc = "done" /\ calls[p].exc = "IntegrityError"
         /\ calls[p].username = "alice" /\ calls[p].tenant = TenantB
    /\ \E p \in Procs :
         /\ calls[p].pc = "done" /\ calls[p].outcome = "ok"
         /\ calls[p].username = "alice" /\ calls[p].tenant = TenantB

\* C19: creating a credential with an e-mail, or changing an e-mail, ends in
\* a conflict when another record of the same tenant has the e-mail, and
\* succeeds when only records of other tenants have it
C19_EmailUniquePerTenant ==
    \A p \in Procs :
        (calls[p].pc = "done" /\ calls[p].eligible) =>
            /\ calls[p].usedSame => calls[p].outcome = "email_conflict"
            /\ (~calls[p].usedSame /\ calls[p].usedOther) => calls[p].outcome = "ok"

\* the text the database driver and SQLAlchemy put into str(IntegrityError)
RawDatabaseText ==
    UNION {{IntegrityErrorText(k)[i] : i \in 1..Len(IntegrityErrorText(k))} :
              k \in {"uq_shared_users_tenant_username", "uq_shared_users_tenant_email"}}

\* C20: a signup that fails on a duplicate username or e-mail, found by the
\* query or by the constraint at commit, is answered with an error whose text
\* holds no constraint name and no driver or statement text
C20_ConflictTextGeneric ==
    \A p \in Procs :
        (calls[p].pc = "done" /\ calls[p].op = "signup"
           /\ calls[p].outcome \in {"username_conflict", "email_conflict"}) =>
            /\ calls[p].status # 200
            /\ \A i \in 1..Len(calls[p].detail) : calls[p].detail[i] \notin RawDatabaseText

\* C21: under every interleaving of payment create and edit requests no
\* member has two payments of the same (period_year, period_month)
C21_OnePaymentPerPeriod ==
    \A i \in 1..Len(payments), j \in 1..Len(payments) :
        i # j => payments[i] # payments[j]

\* C22: a password verifies against its own hash, and no other password
\* verifies against that hash
C22_VerifyExactlyThePassword ==
    (pw.stage = "verified" /\ \E salt \in Salts : pw.stored = HashPassword(pw.password, salt))
        => (pw.result = "True" <=> pw.candidate = pw.password)

\* the stored value lacks a field, has an iteration count that is no integer,
\* or has a character outside the base64 alphabet or a wrong padding in the
\* salt or the key
MalformedStored(stored) ==
    \/ Len(stored) < 4
    \/ ParseInt(stored[2]).raised
    \/ stored[3].junk \/ ~stored[3].padded
    \/ stored[4].junk \/ ~stored[4].padded

RefusedStored(stored) ==
    \/ Len(stored) < 4
    \/ ParseInt(stored[2]).raised
    \/ ~stored[3].padded
    \/ ~stored[4].padded

ClaimedPublic(path, list) ==
    \E p \in Entries(list) :
        \/ p = Root /\ path = Root
        \/ EndsWith(p, Root) /\ p # Root /\ StartsWith(path, p)
        \/ ~EndsWith(p, Root) /\ (path = p \/ StartsWith(path, p \o Root))

WithoutRoot(list) == SelectSeq(list, LAMBDA p : p # Root)

\* C26: is_public_path(path) is true exactly when some entry p of the list is
\* "/" and path is "/", or ends with "/" and is a prefix of path, or does not
\* end with "/" and path is p or starts with p followed by "/"; after the
\* registrations of startup the root entry makes no other path public and the
\* list holds no entry twice
C26_PublicPathRule ==
    /\ \A path \in Paths :
        /\ IsPublicPath(path, publicPaths) = ClaimedPublic(path, publicPaths)
        /\ path # Root =>
             IsPublicPath(path, publicPaths)
                 = IsPublicPath(path, WithoutRoot(publicPaths))
    /\ \A i \in 1..Len(publicPaths), j \in 1..Len(publicPaths) :
        i # j => publicPaths[i] # publicPaths[j]
    /\ (areq # NoAuthRequest /\ areq.response = "handler" /\ ~areq.user.set)
            => ClaimedPublic(areq.path, publicPaths)

C26_Witness ==
    /\ serving
    /\ Len(publicPaths) > Len(DEFAULT_PUBLIC_PATHS)
    /\ Root \in Entries(publicPaths)
    /\ areq.response = "handler" /\ ~areq.user.set
    /\ areq.path # Root
    /\ ~IsPublicPath(areq.path, DEFAULT_PUBLIC_PATHS)

\* C25: AuthMiddleware lets the handler run only when the path is public or
\* the token of the request (the bearer value of the Authorization header,
\* else the access_token cookie) has a valid signature and is not expired;
\* with a missing, invalid or expired token the user and the tenant are None
\* and a non-public path gets the JSON 401 or the redirect to /login
C25_HandlerNeedsPublicOrToken ==
    areq # NoAuthRequest =>
        LET tok == IF areq.hdr.scheme = "bearer" /\ areq.hdr.token # NoToken
                   THEN areq.hdr.token ELSE areq.cookie
            good == tok.sig = "valid" /\ ~tok.expired
            public == IsPublicPath(areq.path, publicPaths)
        IN  /\ areq.response = "handler" => (public \/ good)
            /\ ~good => (areq.user = NoUser /\ areq.tenant = None)
            /\ (~good /\ ~public) =>
                     areq.response =
                        IF areq.accept = {"application/json"}
                        THEN "json401" ELSE "redirect_login"

C25_Witness ==
    /\ areq.hdr.scheme = "bearer" /\ areq.hdr.token.sig = "forged"
    /\ areq.cookie.sig = "valid" /\ ~areq.cookie.expired
    /\ ~IsPublicPath(areq.path, publicPaths)
    /\ areq.response = "json401"

\* the row login read holds another password than the one presented
WrongPassword == login.row # 0 /\ creds[login.row].password # login.password

\* C24: through /login and through /api/token an unknown username, a wrong
\* password and a malformed stored credential value get the one invalid
\* credentials response of the endpoint, and no token
C24_UniformRefusal ==
    (/\ login.stage = "answered"
     /\ \/ login.row = 0
        \/ WrongPassword
        \/ MalformedStored(creds[login.row].password_hash))
        => /\ login.response = InvalidCredentials(login.endpoint)
           /\ login.response.token = NoToken

\* C29: a login with the username and the password of a record succeeds with
\* a token for the tenant of that record, also when another tenant has the
\* username with another password; no token is issued for a tenant whose
\* record holds another password than the one presented
C29_LoginReachesOwnTenant ==
    login.stage = "answered" =>
        LET own == {i \in Matching(login.username) :
                      /\ creds[i].password = login.password
                      /\ Intact(creds[i])}
            tok == login.response.token
        IN  /\ own # {} =>
                /\ tok # NoToken
                /\ \E i \in own : tok.tenant = creds[i].tenant
            /\ tok # NoToken =>
                \A i \in MatchingIn(login.username, tok.tenant) :
                    creds[i].password = login.password

\* C30: no token is issued for a record with is_active false, and
\* AuthMiddleware lets no token with a false is_active claim through to the
\* handler of a non-public path
C30_InactiveShutOut ==
    /\ (login.stage = "answered" /\ login.row # 0
            /\ ~creds[login.row].is_active)
          => login.response.token = NoToken
    /\ (/\ areq # NoAuthRequest
        /\ SelectToken(areq.hdr, areq.cookie).sig = "valid"
        /\ ~SelectToken(areq.hdr, areq.cookie).active
        /\ ~IsPublicPath(areq.path, publicPaths))
          => areq.response # "handler"

MetaQuiet == \A p \in Procs : mt[p].pc \in {"idle", "done"}

\* C27: when no call of create_tenant_schema_and_tables is running the schema
\* attribute of every Table is what it was before the calls, None; and two
\* calls for different tenants, in any interleaving, leave each tenant's
\* tables created in its own schema
C27_MetadataRestored ==
    /\ MetaQuiet => meta = [k \in 1..NumTables |-> None]
    /\ \A p \in Procs, q \in Procs :
        (/\ mt[p].pc = "done" /\ mt[q].pc = "done"
         /\ mt[p].tenant # mt[q].tenant
         /\ ~mt[p].raised /\ ~mt[q].raised)
            => \A k \in 1..NumTables : <<mt[p].tenant, MetaTables[k]>> \in created

\* every reference of a member and of a payment names a row
ReferencesExist ==
    /\ \A m \in dom.members : m.level \in dom.levels /\ m.location \in dom.locations
    /\ \A y \in dom.payments : y.price # 0 => y.price \in dom.prices

\* what a delete of row id of a table does: referenced, it answers in_use and
\* changes nothing; else it removes the row and nothing more
DeleteRule(referenced, without) ==
    IF referenced THEN dreq'.outcome = "in_use" /\ dom' = dom
    ELSE dreq'.outcome = "deleted" /\ dom' = without

\* C28: after any sequence of settings and member operations the level and
\* the location of every member and the price of every payment, when set,
\* exist; a delete of a level, location or price that is referenced answers
\* with the in-use error and deletes nothing, one of an unreferenced row
\* deletes it
C28_ReferencesKept ==
    /\ []ReferencesExist
    /\ [][/\ (dreq'.op = "location_delete" /\ dreq'.id \in dom.locations)
              => DeleteRule(\E m \in dom.members : m.location = dreq'.id,
                            [dom EXCEPT !.locations = @ \ {dreq'.id}])
          /\ (dreq'.op = "level_delete" /\ dreq'.id \in dom.levels)
              => DeleteRule(\E m \in dom.members : m.level = dreq'.id,
                            [dom EXCEPT !.levels = @ \ {dreq'.id}])
          /\ (dreq'.op = "price_delete" /\ dreq'.id \in dom.prices)
              => DeleteRule(\E y \in dom.payments : y.price = dreq'.id,
                            [dom EXCEPT !.prices = @ \ {dreq'.id}])]_vars

C28_Witness ==
    /\ dreq.op = "location_delete" /\ dreq.outcome = "in_use"
    /\ \E m \in dom.members : m.location = dreq.id
    /\ dom.payments # {}
    /\ Cardinality(dom.locations) = MaxId
====
